---- MODULE Spec2Model ----
(***************************************************************************)
(* Dual-signature subsystem of wdk-core: the DualSignatureProtocol         *)
(* coordinator, the DualKeyDerivation engine and the two signers.          *)
(*                                                                         *)
(* JavaScript runs one task at a time; an async function runs until its    *)
(* next await and is resumed later.  Every action below is one such run:   *)
(* the code between two suspension points of one call.  Chains of plain    *)
(* returns through several awaits, in which no field is read or written,   *)
(* are folded into the step that follows them.                             *)
(***************************************************************************)
EXTENDS Integers, Sequences, FiniteSets, TLC

\* ------------------------------------------------------------------ bounds
MaxCalls == 2          \* calls made on the coordinator in one behaviour

\* ------------------------------------------------------------ JS values
NULL == 0              \* null reference (object ids start at 1)
None == <<>>           \* undefined / null for a value that may be absent
Some(x) == <<x>>
Val(o) == o[1]

MnemonicSeeds == {"mnemonic"}          \* typeof seed === 'string'
ByteSeeds == {"bytes"}                 \* seed instanceof Uint8Array
NoSeed == "none"                       \* undefined, null, '' : falsy
Data == {"msg", "num"}                 \* a string to sign; a number (unsupported)
SignatureTypes == {"ecdsa", "mldsa", "dual"}

\* ------------------------------------------------ constants of the source
DERIVATION_PATHS ==
  [ECDSA |-> [PURPOSE |-> 44, COIN_TYPE |-> 60],
   MLDSA |-> [PURPOSE |-> 44, COIN_TYPE |-> 9000]]

ML_DSA_LEVELS ==
  [ML_DSA_44 |-> [level |-> 2, privateKeySize |-> 2560, publicKeySize |-> 1312,
                  signatureSize |-> 2420],
   ML_DSA_65 |-> [level |-> 3, privateKeySize |-> 4032, publicKeySize |-> 1952,
                  signatureSize |-> 3293],
   ML_DSA_87 |-> [level |-> 5, privateKeySize |-> 4896, publicKeySize |-> 2592,
                  signatureSize |-> 4595]]

\* the defaults the constructor spreads the caller's config over
DefaultConfig ==
  [ecdsaEnabled |-> TRUE, mldsaEnabled |-> TRUE, defaultSignatureType |-> "ecdsa",
   mldsaAlgorithm |-> "ML-DSA-65", autoInitialize |-> TRUE,
   seed |-> NoSeed, accountIndex |-> None, addressIndex |-> None]

\* -------------------------------------------------------------- state
VARIABLES
  this,          \* the coordinator's fields
  engines,       \* every DualKeyDerivation constructed so far, by id
  ecdsaSigners,  \* every ECDSASigner constructed so far, by id
  mldsaSigners,  \* every MLDSASigner constructed so far, by id
  zeroed,        \* the Uint8Array seed buffers that were filled with 0
  objs,          \* the result objects allocated by getAddresses / getPublicKeys
  tasks,         \* the calls: position, locals, result
  started,       \* number of calls made so far
  env,           \* the environment: which primitives are there, how they act
  history        \* what has happened so far: the constructor's arguments,
                 \* whether dispose() has returned, ... (read by the properties only)

vars == <<this, engines, ecdsaSigners, mldsaSigners, zeroed, objs, tasks,
          started, env, history>>

\* Top-level calls run in slots 1 and 2; slot 2+t and 4+t hold the two
\* signing calls that a dualSign in slot t starts.
Callers == {1, 2}
TaskIds == 1 .. 6
EcdsaChild(t) == 2 + t
MldsaChild(t) == 4 + t

NoRes ==
  [kind |-> "none", err |-> "", ecdsa |-> None, mldsa |-> None, data |-> "",
   accountIndex |-> None, addressIndex |-> None, obj |-> NULL, flag |-> FALSE]
OkRes == [NoRes EXCEPT !.kind = "ok"]
ErrRes(e) == [NoRes EXCEPT !.kind = "err", !.err = e]

IdleTask ==
  [op |-> "", route |-> "", pc |-> "idle", data |-> "", type |-> "",
   seed |-> NoSeed, val |-> None, alg |-> "", eng |-> NULL, a |-> None, i |-> None,
   key |-> None, signer |-> NULL, rest |-> <<>>, addresses |-> NULL,
   publicKeys |-> NULL, fingerprints |-> None, res |-> NoRes,
   ready0 |-> FALSE, gone0 |-> FALSE, late |-> FALSE]

\* The whole state as one record, with the running call `cur`: the code of
\* one run is a function from such a record to the next one.
Pack(t) ==
  [this |-> this, engines |-> engines, ecdsaSigners |-> ecdsaSigners,
   mldsaSigners |-> mldsaSigners, zeroed |-> zeroed, objs |-> objs,
   tasks |-> tasks, env |-> env, cur |-> t]

Commit(S) ==
  /\ this' = S.this
  /\ engines' = S.engines
  /\ ecdsaSigners' = S.ecdsaSigners
  /\ mldsaSigners' = S.mldsaSigners
  /\ zeroed' = S.zeroed
  /\ objs' = S.objs
  /\ tasks' = S.tasks

Tk(S) == S.tasks[S.cur]

\* the call ends by returning `r`: its locals are gone, its result stays,
\* and so does what the properties need to know of the call: whether the
\* coordinator was ready (ready0) or disposed (gone0) when it was made, and
\* whether dispose() ran while it was suspended (late)
Return(S, r) ==
  [S EXCEPT !.tasks[S.cur] = [IdleTask EXCEPT !.op = Tk(S).op, !.route = Tk(S).route,
                                              !.data = Tk(S).data, !.type = Tk(S).type,
                                              !.ready0 = Tk(S).ready0,
                                              !.gone0 = Tk(S).gone0,
                                              !.late = Tk(S).late,
                                              !.pc = "done", !.res = r]]

\* the call ends by throwing `e`
Throw(S, e) == Return(S, ErrRes(e))


\* =================================================== DualKeyDerivation
\* constructor(seed): stores the reference, derives nothing yet
NewEngine(seed) ==
  [seed |-> seed, masterKey |-> "none", masterSeed |-> "none", initialized |-> FALSE]

\* HDKey.fromMasterSeed(masterSeed): the master key is a function of the
\* bytes; a buffer that was zero-filled gives the master key of the zero seed
MasterOf(seed, zs) == IF seed \in zs THEN "zeros" ELSE seed

\* a _buildPath that gives every key type the coin type of the classical
\* keys (C25 tells it from the real one)
BuildPathSharedCoin(type, accountIndex, addressIndex) ==
  <<DERIVATION_PATHS.ECDSA.PURPOSE, DERIVATION_PATHS.ECDSA.COIN_TYPE,
    IF accountIndex = None THEN 0 ELSE Val(accountIndex), 0,
    IF addressIndex = None THEN 0 ELSE Val(addressIndex)>>

\* _buildPath(type, accountIndex = 0, addressIndex = 0):
\* m / purpose' / coin_type' / account' / 0 / address
ArgOr0(o) == IF o = None THEN 0 ELSE Val(o)
BuildPath(type, accountIndex, addressIndex) ==
  <<DERIVATION_PATHS[type].PURPOSE, DERIVATION_PATHS[type].COIN_TYPE,
    ArgOr0(accountIndex), 0, ArgOr0(addressIndex)>>

\* this._masterKey.derive(path): the child node of that master at that path
Node(kind, master, path) == [kind |-> kind, master |-> master, path |-> path]
Zeros(n) == [kind |-> "zeros", master |-> "", path |-> <<n>>]

\* a rejection inside the engine: inside _initialize() the coordinator's catch
\* turns it into the initialization error
EngineThrow(S, e) ==
  Throw(S, IF Tk(S).route \in {"deriveECDSAKey", "deriveMLDSAKey"} THEN e
           ELSE "InitializationError")

\* DualKeyDerivation._initialize(), up to its first suspension, called from
\* deriveECDSAKey / deriveMLDSAKey on engine Tk(S).eng
EngineInitialize(S) ==
  LET e == Tk(S).eng
      eng == S.engines[e]
  IN  IF eng.initialized THEN [S EXCEPT !.tasks[S.cur].pc = "D_ret"]
      ELSE IF eng.seed \in MnemonicSeeds
             THEN \* await mnemonicToSeed(this._seed)
                  [S EXCEPT !.tasks[S.cur].pc = "D_mn", !.tasks[S.cur].seed = eng.seed]
      ELSE IF eng.seed \in ByteSeeds
             THEN [S EXCEPT !.engines[e].masterKey = MasterOf(eng.seed, S.zeroed),
                            !.engines[e].masterSeed = eng.seed,
                            !.engines[e].initialized = TRUE,
                            !.tasks[S.cur].pc = "D_ret"]
      ELSE EngineThrow(S, "InvalidSeedError")

\* _initialize() resumed after mnemonicToSeed: lines 62-64, whatever happened
\* to the engine in between
EngineInitializeResume(S) ==
  LET e == Tk(S).eng
  IN  [S EXCEPT !.engines[e].masterKey = MasterOf(Tk(S).seed, S.zeroed),
                !.engines[e].masterSeed = Tk(S).seed,
                !.engines[e].initialized = TRUE,
                !.tasks[S.cur].pc = "D_ret"]

\* a deriveECDSAKey that derives along the post-quantum path (C26 tells it
\* from the real one)
ECDSAKeyMaterialOtherPath(master, a, i) ==
  LET path == <<44, 9000, IF a = None THEN 0 ELSE Val(a), 0,
                IF i = None THEN 0 ELSE Val(i)>>
  IN  [privateKey |-> Some([kind |-> "ecdsa-sk", master |-> master, path |-> path]),
       publicKey |-> Some([kind |-> "ecdsa-pk", master |-> master, path |-> path]),
       seed |-> None, path |-> path, type |-> "ECDSA", algorithm |-> "",
       accountIndex |-> IF a = None THEN 0 ELSE Val(a),
       addressIndex |-> IF i = None THEN 0 ELSE Val(i), placeholder |-> None]

\* what deriveECDSAKey returns
ECDSAKeyMaterial(master, a, i) ==
  LET path == BuildPath("ECDSA", a, i)
  IN  [privateKey |-> Some(Node("ecdsa-sk", master, path)),
       publicKey |-> Some(Node("ecdsa-pk", master, path)),
       seed |-> None, path |-> path, type |-> "ECDSA", algorithm |-> "",
       accountIndex |-> ArgOr0(a), addressIndex |-> ArgOr0(i), placeholder |-> None]

\* _generateMLDSAFromSeed(seed): the real key pair when the primitive can be
\* imported, zero-filled buffers of the ML-DSA-65 sizes otherwise
GenerateMLDSAFromSeed(seed, pqAvailable) ==
  IF pqAvailable
    THEN [privateKey |-> Some([seed EXCEPT !.kind = "mldsa-sk"]),
          publicKey |-> Some([seed EXCEPT !.kind = "mldsa-pk"]),
          placeholder |-> Some(FALSE), seed |-> Some(seed)]
    ELSE [privateKey |-> Some(Zeros(ML_DSA_LEVELS.ML_DSA_65.privateKeySize)),
          publicKey |-> Some(Zeros(ML_DSA_LEVELS.ML_DSA_65.publicKeySize)),
          placeholder |-> Some(TRUE), seed |-> Some(seed)]

\* what deriveMLDSAKey returns: the generated pair and the sub-seed; the
\* placeholder mark of the generated pair is not copied
MLDSAKeyMaterial(master, a, i, pqAvailable) ==
  LET path == BuildPath("MLDSA", a, i)
      mldsaSeed == Node("mldsa-seed", master, path)
      pair == GenerateMLDSAFromSeed(mldsaSeed, pqAvailable)
  IN  [privateKey |-> pair.privateKey, publicKey |-> pair.publicKey,
       seed |-> Some(mldsaSeed), path |-> path, type |-> "ML-DSA",
       algorithm |-> "ML-DSA-65", accountIndex |-> ArgOr0(a),
       addressIndex |-> ArgOr0(i), placeholder |-> None]

\* getDerivationPaths(accountIndex = 0, addressIndex = 0)
GetDerivationPaths(a, i) ==
  [ecdsa |-> BuildPath("ECDSA", a, i), mldsa |-> BuildPath("MLDSA", a, i)]

\* the derive call hands its key material to its caller
DeriveReturn(S, key) ==
  IF Tk(S).route \in {"deriveECDSAKey", "deriveMLDSAKey"}
    THEN Return(S, [OkRes EXCEPT !.ecdsa = IF Tk(S).alg = "ECDSA" THEN Some(key) ELSE None,
                                 !.mldsa = IF Tk(S).alg = "MLDSA" THEN Some(key) ELSE None])
    ELSE [S EXCEPT !.tasks[S.cur].key = Some(key), !.tasks[S.cur].pc = "I_key"]

\* deriveECDSAKey / deriveMLDSAKey resumed after `await this._initialize()`
DeriveResume(S) ==
  LET eng == S.engines[Tk(S).eng]
      a == Tk(S).a
      i == Tk(S).i
  IN  IF eng.masterKey = "none" THEN EngineThrow(S, "TypeError")
      ELSE IF Tk(S).alg = "ECDSA"
             THEN DeriveReturn(S, ECDSAKeyMaterial(eng.masterKey, a, i))
      ELSE \* await this._generateMLDSAFromSeed(mldsaSeed)
           [S EXCEPT !.tasks[S.cur].pc = "D_gen",
                     !.tasks[S.cur].key =
                        Some(MLDSAKeyMaterial(eng.masterKey, a, i, S.env.pqAvailable))]

\* deriveMLDSAKey resumed after key generation: lines 136-146
DeriveGenResume(S) == DeriveReturn(S, Val(Tk(S).key))

\* DualKeyDerivation.dispose()
EngineDispose(S, e) ==
  LET eng == S.engines[e]
      bufs == {b \in {eng.masterSeed, eng.seed} : b \in ByteSeeds}
  IN  [S EXCEPT !.engines[e] = [seed |-> "none", masterKey |-> "none",
                                masterSeed |-> "none", initialized |-> FALSE],
                !.zeroed = S.zeroed \cup bufs]

\* ============================================================ the signers
\* ECDSASigner constructor
ECDSASignerCtorOk(keyPair) == keyPair.privateKey # None /\ keyPair.publicKey # None
NewECDSASigner(keyPair) ==
  [privateKey |-> keyPair.privateKey, publicKey |-> keyPair.publicKey,
   path |-> Some(keyPair.path), accountIndex |-> keyPair.accountIndex,
   addressIndex |-> keyPair.addressIndex]

\* MLDSASigner constructor: _validateKeySizes() looks the algorithm name up
\* in ML_DSA_LEVELS and throws when there is no such entry
MLDSAAlgorithmOf(keyPair) ==
  IF keyPair.algorithm = "" THEN "ML-DSA-65" ELSE keyPair.algorithm
ValidateKeySizes(algorithm) == algorithm \in DOMAIN ML_DSA_LEVELS
MLDSASignerCtorOk(keyPair) ==
  /\ keyPair.privateKey # None
  /\ keyPair.publicKey # None
  /\ ValidateKeySizes(MLDSAAlgorithmOf(keyPair))
NewMLDSASigner(keyPair) ==
  [privateKey |-> keyPair.privateKey, publicKey |-> keyPair.publicKey,
   seed |-> keyPair.seed, path |-> Some(keyPair.path),
   algorithm |-> MLDSAAlgorithmOf(keyPair),
   accountIndex |-> keyPair.accountIndex, addressIndex |-> keyPair.addressIndex,
   hasRealImplementation |-> (keyPair.placeholder # Some(TRUE))]

\* ECDSASigner.dispose / MLDSASigner.dispose
ECDSASignerDispose(S, s) ==
  [S EXCEPT !.ecdsaSigners[s].privateKey = None, !.ecdsaSigners[s].publicKey = None,
            !.ecdsaSigners[s].path = None]
MLDSASignerDispose(S, s) ==
  [S EXCEPT !.mldsaSigners[s].privateKey = None, !.mldsaSigners[s].publicKey = None,
            !.mldsaSigners[s].seed = None, !.mldsaSigners[s].path = None]


\* ================================================ DualSignatureProtocol
\* the state the constructor leaves
NewProtocol(account, config) ==
  [account |-> Some(account), config |-> Some(config),
   keyDerivation |-> NULL, ecdsaSigner |-> NULL, mldsaSigner |-> NULL,
   initialized |-> FALSE, accountIndex |-> None, addressIndex |-> None,
   addressCache |-> {}, publicKeyCache |-> {}]

\* the catch of _initialize(): whatever was thrown, an initialization error
InitFail(S) == Throw(S, "InitializationError")

\* _getAccountIndex() / _getAddressIndex(): config override, then the
\* account's method, then the account's property, then 0
ResolveIndexMethodFirst(override, method, property) ==
  IF method # None THEN method
  ELSE IF override # None THEN override
  ELSE IF property # None THEN property
  ELSE Some(0)
ResolveIndex(override, method, property) ==
  IF override # None THEN override
  ELSE IF method # None THEN method
  ELSE IF property # None THEN property
  ELSE Some(0)
GetAccountIndex(S) ==
  ResolveIndex(Val(S.this.config).accountIndex, Val(S.this.account).getAccountIndex,
               Val(S.this.account).accountIndex)
GetAddressIndex(S) ==
  ResolveIndex(Val(S.this.config).addressIndex, Val(S.this.account).getAddressIndex,
               Val(S.this.account).addressIndex)

\* line 98, and the return to the caller that awaits _initialize()
InitFinish(S) ==
  [S EXCEPT !.this.initialized = TRUE, !.tasks[S.cur].pc = "body"]

\* this._keyDerivation.deriveECDSAKey / deriveMLDSAKey(this._accountIndex,
\* this._addressIndex), up to the first suspension inside the engine
StartDerive(S, alg) ==
  IF S.this.keyDerivation = NULL THEN InitFail(S)
  ELSE EngineInitialize([S EXCEPT !.tasks[S.cur].alg = alg,
                                  !.tasks[S.cur].eng = S.this.keyDerivation,
                                  !.tasks[S.cur].a = S.this.accountIndex,
                                  !.tasks[S.cur].i = S.this.addressIndex])

\* lines 89-98
InitMLDSAPart(S) ==
  IF S.this.config = None THEN InitFail(S)
  ELSE IF Val(S.this.config).mldsaEnabled THEN StartDerive(S, "MLDSA")
  ELSE InitFinish(S)

\* lines 86-98 and 95-98: _initialize() resumed with the derived key
InitResumeKey(S) ==
  LET key == Val(Tk(S).key)
  IN  IF Tk(S).alg = "ECDSA"
        THEN IF ~ECDSASignerCtorOk(key) THEN InitFail(S)
             ELSE InitMLDSAPart(
                    [S EXCEPT !.ecdsaSigners = Append(S.ecdsaSigners, NewECDSASigner(key)),
                              !.this.ecdsaSigner = Len(S.ecdsaSigners) + 1])
        ELSE IF ~MLDSASignerCtorOk(key) THEN InitFail(S)
             ELSE InitFinish(
                    [S EXCEPT !.mldsaSigners = Append(S.mldsaSigners, NewMLDSASigner(key)),
                              !.this.mldsaSigner = Len(S.mldsaSigners) + 1])

\* lines 78-87: resumed with the address index
InitResumeAddr(S) ==
  LET S1 == [S EXCEPT !.this.addressIndex = Tk(S).val]
  IN  IF S1.this.config = None THEN InitFail(S1)
      ELSE IF Val(S1.this.config).ecdsaEnabled THEN StartDerive(S1, "ECDSA")
      ELSE InitMLDSAPart(S1)

\* lines 77-78: resumed with the account index
InitResumeAcct(S) ==
  LET S1 == [S EXCEPT !.this.accountIndex = Tk(S).val]
  IN  IF S1.this.config = None THEN InitFail(S1)
      ELSE [S1 EXCEPT !.tasks[S.cur].pc = "I_addr", !.tasks[S.cur].val = GetAddressIndex(S1)]

\* lines 73-77: the engine is built from the seed and assigned
InitAfterSeed(S, seed) ==
  LET S1 == [S EXCEPT !.engines = Append(S.engines, NewEngine(seed)),
                      !.this.keyDerivation = Len(S.engines) + 1]
  IN  IF S1.this.config = None THEN InitFail(S1)
      ELSE [S1 EXCEPT !.tasks[S.cur].pc = "I_acct", !.tasks[S.cur].val = GetAccountIndex(S1)]

\* a variant without the guard of line 56 (C14 tells it from the real one)
InitializeAnew(S) ==
  IF S.this.config = None \/ S.this.account = None THEN InitFail(S)
  ELSE LET cfg == Val(S.this.config)
           acct == Val(S.this.account)
       IN  IF cfg.seed # NoSeed THEN InitAfterSeed(S, cfg.seed)
           ELSE IF acct.getSeed # None
                  THEN [S EXCEPT !.tasks[S.cur].pc = "I_seed",
                                 !.tasks[S.cur].seed = Val(acct.getSeed)]
           ELSE IF acct.seed # NoSeed THEN InitAfterSeed(S, acct.seed)
           ELSE InitFail(S)

\* _initialize(), lines 56-71, up to its first suspension
Initialize(S) ==
  IF S.this.initialized THEN [S EXCEPT !.tasks[S.cur].pc = "body"]
  ELSE IF S.this.config = None \/ S.this.account = None THEN InitFail(S)
  ELSE LET cfg == Val(S.this.config)
           acct == Val(S.this.account)
       IN  IF cfg.seed # NoSeed THEN InitAfterSeed(S, cfg.seed)
           ELSE IF acct.getSeed # None
                  THEN \* await this._account.getSeed()
                       [S EXCEPT !.tasks[S.cur].pc = "I_seed",
                                 !.tasks[S.cur].seed = Val(acct.getSeed)]
           ELSE IF acct.seed # NoSeed THEN InitAfterSeed(S, acct.seed)
           ELSE InitFail(S)

\* resumed with what getSeed() returned
InitResumeSeed(S) == InitAfterSeed(S, Tk(S).seed)

\* a variant that initializes whatever autoInitialize says (C6 tells it
\* from the real one)
EnsureInitializedAlways(S) ==
  IF S.this.initialized THEN [S EXCEPT !.tasks[S.cur].pc = "body"]
  ELSE IF S.this.config = None THEN Throw(S, "TypeError")
  ELSE Initialize(S)

\* _ensureInitialized(), up to its first suspension
EnsureInitialized(S) ==
  IF S.this.initialized THEN [S EXCEPT !.tasks[S.cur].pc = "body"]
  ELSE IF S.this.config = None THEN Throw(S, "TypeError")
  ELSE IF Val(S.this.config).autoInitialize THEN Initialize(S)
  ELSE Throw(S, "NotInitializedError")

\* a method of the coordinator is entered: all of them begin with
\* `await this._ensureInitialized()`
CallMethod(S, route) == EnsureInitialized([S EXCEPT !.tasks[S.cur].route = route])

\* a variant that leaves the caches as they are (C13 tells it from the real
\* one)
ClearCachesKept(S) == S

\* clearCaches()
ClearCaches(S) == [S EXCEPT !.this.addressCache = {}, !.this.publicKeyCache = {}]

\* dispose(), lines 458-474: the signers and the engine are disposed and
\* dropped
DisposeOwned(S) ==
  LET S1 == IF S.this.ecdsaSigner # NULL
              THEN [ECDSASignerDispose(S, S.this.ecdsaSigner) EXCEPT !.this.ecdsaSigner = NULL]
              ELSE S
      S2 == IF S1.this.mldsaSigner # NULL
              THEN [MLDSASignerDispose(S1, S1.this.mldsaSigner) EXCEPT !.this.mldsaSigner = NULL]
              ELSE S1
      S3 == IF S2.this.keyDerivation # NULL
              THEN [EngineDispose(S2, S2.this.keyDerivation) EXCEPT !.this.keyDerivation = NULL]
              ELSE S2
  IN  S3

\* a variant that keeps the constructor's arguments (C1 and C36 tell it
\* from the real one)
DisposeKeepingArguments(S) ==
  [ClearCaches(DisposeOwned(S)) EXCEPT !.this.initialized = FALSE]

\* dispose()
Dispose(S) ==
  [ClearCaches(DisposeOwned(S)) EXCEPT !.this.initialized = FALSE, !.this.account = None,
                                       !.this.config = None]


\* ------------------------------------------------------------- signing
\* _dataToBytes(data): bytes, strings and objects are serialised, anything
\* else throws
DataSupported(data) == data # "num"

Signature(alg, key, msg, mode, size, placeholder) ==
  [alg |-> alg, key |-> key, msg |-> msg, mode |-> mode, size |-> size,
   placeholder |-> placeholder]

\* ECDSASigner.sign / signMessage / signTransaction: no suspension inside.
\* bytesToHex is handed a string for r and s; whether that throws is up to
\* the installed @noble/hashes (env.strictHex)
ECDSASign(signer, data, mode, strictHex) ==
  IF mode # "signTransaction" /\ ~DataSupported(data)
    THEN ErrRes("UnsupportedDataTypeError")
  ELSE IF signer.privateKey = None THEN ErrRes("SignError")
  ELSE IF strictHex THEN ErrRes("TypeError")
  ELSE [OkRes EXCEPT !.ecdsa = Some(Signature("ECDSA", signer.privateKey, data, mode,
                                              64, FALSE))]

\* MLDSASigner._signWithPlaceholder: hash of message, hash of the sub-seed
\* (of 32 zero bytes when there is none), context; expanded to the level's size
SignWithPlaceholder(signer, data) ==
  IF signer.algorithm \notin DOMAIN ML_DSA_LEVELS THEN ErrRes("TypeError")
  ELSE [OkRes EXCEPT !.mldsa =
          Some(Signature("ML-DSA", signer.seed, data, "sign",
                         ML_DSA_LEVELS[signer.algorithm].signatureSize, TRUE))]

\* MLDSASigner.sign, up to its first suspension
MLDSASign(S, s, data) ==
  LET signer == S.mldsaSigners[s]
  IN  IF ~DataSupported(data) THEN Throw(S, "UnsupportedDataTypeError")
      ELSE IF signer.hasRealImplementation
             THEN \* _signWithRealImplementation: await import('@noble/post-quantum')
                  [S EXCEPT !.tasks[S.cur].pc = "S_imp", !.tasks[S.cur].signer = s]
      ELSE LET r == SignWithPlaceholder(signer, data)
           IN  IF r.kind = "err" THEN Throw(S, r.err)
               ELSE [S EXCEPT !.tasks[S.cur].pc = "S_ret", !.tasks[S.cur].res = r]

\* _signWithRealImplementation resumed: the module has no export named
\* ml_dsa_65, so the placeholder signs
MLDSASignImported(S) ==
  Return(S, SignWithPlaceholder(S.mldsaSigners[Tk(S).signer], Tk(S).data))

\* ECDSASigner.verify: never throws.  `sig` is what the caller passes: "compact"
\* (the compact hex of a signature this key made over this data with the
\* default options), "junk", or "signed", the object sign() returned for this
\* data: secp256k1.verify throws at an object whose r and s are not bigints
ECDSAVerify(signer, data, sig) ==
  /\ DataSupported(data)
  /\ signer.publicKey # None
  /\ sig = "compact"

\* ---------------------------------------------------- addresses and keys
Address(kind, publicKey) == [publicKey EXCEPT !.kind = kind]
CacheKey(S) == <<S.this.accountIndex, S.this.addressIndex>>
Lookup(cache, key) ==
  IF \E e \in cache : e[1] = key THEN (CHOOSE e \in cache : e[1] = key)[2] ELSE NULL
Store(cache, key, obj) == {e \in cache : e[1] # key} \cup {<<key, obj>>}

PublicKeysObject(S) ==
  [kind |-> "publicKeys",
   ecdsa |-> IF S.this.ecdsaSigner # NULL
               THEN S.ecdsaSigners[S.this.ecdsaSigner].publicKey ELSE None,
   mldsa |-> IF S.this.mldsaSigner # NULL
               THEN S.mldsaSigners[S.this.mldsaSigner].publicKey ELSE None]
AddressesObject(S) ==
  [kind |-> "addresses",
   ecdsa |-> IF S.this.ecdsaSigner # NULL
               THEN Some(Address("eth-addr", Val(S.ecdsaSigners[S.this.ecdsaSigner].publicKey)))
               ELSE None,
   mldsa |-> IF S.this.mldsaSigner # NULL
               THEN Some(Address("mldsa-addr", Val(S.mldsaSigners[S.this.mldsaSigner].publicKey)))
               ELSE None]
Fingerprints(S) ==
  [kind |-> "fingerprints",
   ecdsa |-> IF S.this.ecdsaSigner # NULL
               THEN Some(Address("ecdsa-fp", Val(S.ecdsaSigners[S.this.ecdsaSigner].publicKey)))
               ELSE None,
   mldsa |-> IF S.this.mldsaSigner # NULL
               THEN Some(Address("mldsa-fp", Val(S.mldsaSigners[S.this.mldsaSigner].publicKey)))
               ELSE None]

\* a method returns: to the caller of the coordinator, or into exportPublicKeys
\* / getInfo, which go on with their next await
MethodReturn(S, r) ==
  IF Tk(S).rest = <<>> THEN Return(S, r)
  ELSE [S EXCEPT !.tasks[S.cur].pc = "next",
                 !.tasks[S.cur].addresses =
                    IF Tk(S).route = "getAddresses" THEN r.obj ELSE @,
                 !.tasks[S.cur].publicKeys =
                    IF Tk(S).route = "getPublicKeys" THEN r.obj ELSE @,
                 !.tasks[S.cur].fingerprints =
                    IF Tk(S).route = "getFingerprints"
                      THEN Some([ecdsa |-> r.ecdsa, mldsa |-> r.mldsa]) ELSE @]

\* a variant that never looks the object up (C12 tells it from the real one)
GetUncached(S, field, object) ==
  MethodReturn([S EXCEPT !.objs = Append(S.objs, object),
                         !.this[field] = Store(@, CacheKey(S), Len(S.objs) + 1)],
               [OkRes EXCEPT !.obj = Len(S.objs) + 1])

\* getPublicKeys / getAddresses after _ensureInitialized()
GetCached(S, field, object) ==
  LET hit == Lookup(S.this[field], CacheKey(S))
  IN  IF hit # NULL THEN MethodReturn(S, [OkRes EXCEPT !.obj = hit])
      ELSE MethodReturn([S EXCEPT !.objs = Append(S.objs, object),
                                  !.this[field] = Store(@, CacheKey(S), Len(S.objs) + 1)],
                        [OkRes EXCEPT !.obj = Len(S.objs) + 1])

\* signWithECDSA / signMessageWithECDSA / signTransactionWithECDSA after
\* _ensureInitialized()
ECDSAMode(route) ==
  IF route = "signMessageWithECDSA" THEN "signMessage"
  ELSE IF route = "signTransactionWithECDSA" THEN "signTransaction"
  ELSE "sign"
SignWithECDSABody(S) ==
  IF S.this.config = None THEN Throw(S, "TypeError")
  ELSE IF ~Val(S.this.config).ecdsaEnabled \/ S.this.ecdsaSigner = NULL
         THEN Throw(S, "AlgorithmDisabledError")
  ELSE LET r == ECDSASign(S.ecdsaSigners[S.this.ecdsaSigner], Tk(S).data,
                          ECDSAMode(Tk(S).route), S.env.strictHex)
       IN  IF r.kind = "err" THEN Throw(S, r.err)
           ELSE [S EXCEPT !.tasks[S.cur].pc = "S_ret", !.tasks[S.cur].res = r]

\* signWithMLDSA after _ensureInitialized()
SignWithMLDSABody(S) ==
  IF S.this.config = None THEN Throw(S, "TypeError")
  ELSE IF ~Val(S.this.config).mldsaEnabled \/ S.this.mldsaSigner = NULL
         THEN Throw(S, "AlgorithmDisabledError")
  ELSE MLDSASign(S, S.this.mldsaSigner, Tk(S).data)

\* the signing call that dualSign starts in slot c for an enabled algorithm
StartChild(S, c, route) ==
  LET S1 == CallMethod([S EXCEPT !.tasks[c] = [IdleTask EXCEPT !.op = route,
                                                               !.data = Tk(S).data],
                                 !.cur = c], route)
  IN  [S1 EXCEPT !.cur = S.cur]

\* dualSign after _ensureInitialized(): lines 230-237
DualSignBody(S) ==
  IF S.this.config = None THEN Throw(S, "TypeError")
  ELSE LET S1 == IF Val(S.this.config).ecdsaEnabled
                   THEN StartChild(S, EcdsaChild(S.cur), "signWithECDSA") ELSE S
           S2 == IF Val(S1.this.config).mldsaEnabled
                   THEN StartChild(S1, MldsaChild(S.cur), "signWithMLDSA") ELSE S1
       IN  [S2 EXCEPT !.tasks[S.cur].pc = "join"]

\* dualSign resumed by Promise.all with both results: lines 239-246
DualSignResult(S, ecdsaSignature, mldsaSignature) ==
  [OkRes EXCEPT !.ecdsa = ecdsaSignature, !.mldsa = mldsaSignature,
                !.data = Tk(S).data, !.accountIndex = S.this.accountIndex,
                !.addressIndex = S.this.addressIndex]

\* verifyECDSA / verifyMLDSA after _ensureInitialized()
VerifyECDSABody(S) ==
  IF S.this.ecdsaSigner = NULL THEN Throw(S, "SignerNotAvailableError")
  ELSE Return(S, [OkRes EXCEPT !.flag =
                    ECDSAVerify(S.ecdsaSigners[S.this.ecdsaSigner], Tk(S).data, Tk(S).type)])
VerifyMLDSABody(S) ==
  IF S.this.mldsaSigner = NULL THEN Throw(S, "SignerNotAvailableError")
  ELSE [S EXCEPT !.tasks[S.cur].pc = "V_imp", !.tasks[S.cur].signer = S.this.mldsaSigner]

\* exportPublicKeys, lines 361-377, and getInfo, lines 410-427
ExportTail(S) ==
  LET pk == S.objs[Tk(S).publicKeys]
  IN  IF (S.this.ecdsaSigner # NULL /\ pk.ecdsa = None)
         \/ (S.this.mldsaSigner # NULL /\ (pk.mldsa = None \/ S.this.config = None))
        THEN Throw(S, "TypeError")
      ELSE Return(S, [OkRes EXCEPT !.obj = Tk(S).addresses,
                        !.ecdsa = IF S.this.ecdsaSigner # NULL THEN pk.ecdsa ELSE None,
                        !.mldsa = IF S.this.mldsaSigner # NULL THEN pk.mldsa ELSE None,
                        !.accountIndex = S.this.accountIndex,
                        !.addressIndex = S.this.addressIndex])
InfoTail(S) ==
  IF S.this.config = None THEN Throw(S, "TypeError")
  ELSE Return(S, [OkRes EXCEPT !.obj = Tk(S).addresses, !.flag = S.this.initialized,
                               !.accountIndex = S.this.accountIndex,
                               !.addressIndex = S.this.addressIndex])

\* the method resumed after `await this._ensureInitialized()`
Body(S) ==
  LET route == Tk(S).route
  IN  CASE route = "initialize" -> Return(S, OkRes)
        [] route \in {"signWithECDSA", "signMessageWithECDSA", "signTransactionWithECDSA"}
             -> SignWithECDSABody(S)
        [] route = "signWithMLDSA" -> SignWithMLDSABody(S)
        [] route = "dualSign" -> DualSignBody(S)
        [] route = "verifyECDSA" -> VerifyECDSABody(S)
        [] route = "verifyMLDSA" -> VerifyMLDSABody(S)
        [] route = "getPublicKeys" -> GetCached(S, "publicKeyCache", PublicKeysObject(S))
        [] route = "getAddresses" -> GetCached(S, "addressCache", AddressesObject(S))
        [] route = "getFingerprints"
             -> MethodReturn(S, [OkRes EXCEPT !.ecdsa = Fingerprints(S).ecdsa,
                                              !.mldsa = Fingerprints(S).mldsa])
        [] route = "exportPublicKeys"
             -> CallMethod([S EXCEPT !.tasks[S.cur].rest =
                               <<"getPublicKeys", "getFingerprints", "exportTail">>],
                           "getAddresses")
        [] route = "getInfo"
             -> CallMethod([S EXCEPT !.tasks[S.cur].rest = <<"infoTail">>], "getAddresses")

\* exportPublicKeys / getInfo resumed after one of their awaits
Continue(S) ==
  LET nxt == Head(Tk(S).rest)
      S1 == [S EXCEPT !.tasks[S.cur].rest = Tail(@)]
  IN  IF nxt = "exportTail" THEN ExportTail(S1)
      ELSE IF nxt = "infoTail" THEN InfoTail(S1)
      ELSE CallMethod(S1, nxt)

\* sign(data, options): options.type || this._config.defaultSignatureType;
\* "undefined" is an options.type that is not given, "" the empty string
Falsy(type) == type \in {"undefined", ""}
\* a variant that never looks at options.type (C10 tells it from the real one)
SelectDefaultType(type, config) ==
  IF config = None THEN type ELSE Val(config).defaultSignatureType
SelectType(type, config) ==
  IF ~Falsy(type) THEN type ELSE Val(config).defaultSignatureType
Sign(S) ==
  IF Falsy(Tk(S).type) /\ S.this.config = None THEN Throw(S, "TypeError")
  ELSE LET signatureType == SelectType(Tk(S).type, S.this.config)
       IN  CASE signatureType = "ecdsa" -> CallMethod(S, "signWithECDSA")
             [] signatureType = "mldsa" -> CallMethod(S, "signWithMLDSA")
             [] signatureType = "dual" -> CallMethod(S, "dualSign")
             [] OTHER -> Throw(S, "InvalidSignatureTypeError")

\* ============================================================== actions
Ops ==
  {"initialize", "signWithECDSA", "signMessageWithECDSA", "signTransactionWithECDSA",
   "signWithMLDSA", "dualSign", "sign", "verifyECDSA", "verifyMLDSA", "getAddresses",
   "getPublicKeys", "getFingerprints", "exportPublicKeys", "getInfo"}
SigningOps ==
  {"signWithECDSA", "signMessageWithECDSA", "signTransactionWithECDSA",
   "signWithMLDSA", "dualSign", "sign"}
VerifyOps == {"verifyECDSA", "verifyMLDSA"}
TypeArgs == {"undefined", "", "ecdsa", "mldsa", "dual", "invalid"}
SigArgs == {"compact", "junk"}

ConcurrentOps == {"initialize", "getAddresses", "dualSign"}

Free(t) == tasks[t].pc \in {"idle", "done"}
Idle(t) == Free(t) /\ Free(EcdsaChild(t)) /\ Free(MldsaChild(t))

\* the caller invokes a method of the coordinator: the call runs up to its
\* first suspension
StartCall(t, op, data, type) ==
  /\ started < MaxCalls
  /\ Idle(t)
  /\ LET S == [Pack(t) EXCEPT !.tasks[t] = [IdleTask EXCEPT !.op = op, !.route = op,
                                                           !.data = data, !.type = type,
                                                           !.ready0 = this.initialized,
                                                           !.gone0 = history.disposed],
                              !.tasks[EcdsaChild(t)] = IdleTask,
                              !.tasks[MldsaChild(t)] = IdleTask]
     IN  Commit(IF op = "initialize" THEN Initialize(S)
                ELSE IF op = "sign" THEN Sign(S)
                ELSE CallMethod(S, op))
  /\ started' = started + 1
  /\ history' = [history EXCEPT !.initializeCalled = @ \/ op = "initialize"]
  /\ UNCHANGED env

DataArgs(op) == IF op \in SigningOps \cup VerifyOps THEN Data ELSE {"msg"}
OptionArgs(op) ==
  IF op = "sign" THEN TypeArgs ELSE IF op \in VerifyOps THEN SigArgs ELSE {"undefined"}

\* one caller, who makes any call, one after the other
Call ==
  \E op \in Ops : \E data \in DataArgs(op), type \in OptionArgs(op) :
    StartCall(1, op, data, type)

\* two callers, whose calls overlap
ConcurrentCall ==
  \E t \in Callers, op \in ConcurrentOps :
    /\ \A u \in Callers : u < t => ~Idle(u)
    /\ StartCall(t, op, "msg", "undefined")

\* When history.tracking is set, history.log is the sequence of the objects
\* that getAddresses() and getPublicKeys() have returned to the caller and of
\* the clearCaches() and dispose() calls, in the order they happened.
CachedOps == {"getAddresses", "getPublicKeys"}
Returned(h, task) ==
  IF h.tracking /\ task.pc = "done" /\ task.op \in CachedOps /\ task.res.kind = "ok"
    THEN [h EXCEPT !.log = Append(@, [op |-> task.op, obj |-> task.res.obj])]
    ELSE h
Cleared(h) ==
  IF h.tracking /\ ~h.disposed
    THEN [h EXCEPT !.log = Append(@, [op |-> "clear", obj |-> NULL])]
    ELSE h

\* a suspended call is resumed and runs up to its next suspension; `late`
\* marks a call that dispose() overtook
Resume(t, pc, F(_)) ==
  /\ tasks[t].pc = pc
  /\ LET S == F([Pack(t) EXCEPT !.tasks[t].late = @ \/ history.disposed])
     IN  Commit(S) /\ history' = Returned(history, S.tasks[t])
  /\ UNCHANGED <<started, env>>

SeedReturned == \E t \in TaskIds : Resume(t, "I_seed", InitResumeSeed)
AccountIndexReturned == \E t \in TaskIds : Resume(t, "I_acct", InitResumeAcct)
AddressIndexReturned == \E t \in TaskIds : Resume(t, "I_addr", InitResumeAddr)
MnemonicToSeedReturned == \E t \in TaskIds : Resume(t, "D_mn", EngineInitializeResume)
EngineInitialized == \E t \in TaskIds : Resume(t, "D_ret", DeriveResume)
MLDSAGenerated == \E t \in TaskIds : Resume(t, "D_gen", DeriveGenResume)
KeyDerived == \E t \in TaskIds : Resume(t, "I_key", InitResumeKey)
Ensured == \E t \in TaskIds : Resume(t, "body", Body)
Continued == \E t \in TaskIds : Resume(t, "next", Continue)
SignReturn(S) == MethodReturn(S, Tk(S).res)
Signed == \E t \in TaskIds : Resume(t, "S_ret", SignReturn)

\* Promise.all in dualSign: rejected by the first child that rejects,
\* fulfilled when every child that was started is fulfilled
Kids(t) == {c \in {EcdsaChild(t), MldsaChild(t)} : tasks[c].pc # "idle"}
ChildValue(c, field) ==
  IF tasks[c].pc = "idle" THEN None ELSE tasks[c].res[field]
\* a variant that fulfils with whatever the children left, null for one
\* that failed (C7 tells it from the real one)
JoinStepSettled(S, failed) ==
  Return(S, DualSignResult(S, ChildValue(EcdsaChild(S.cur), "ecdsa"),
                           ChildValue(MldsaChild(S.cur), "mldsa")))
JoinStep(S, failed) ==
  IF failed # NULL THEN Throw(S, S.tasks[failed].res.err)
  ELSE Return(S, DualSignResult(S, ChildValue(EcdsaChild(S.cur), "ecdsa"),
                                ChildValue(MldsaChild(S.cur), "mldsa")))
Joined ==
  \E t \in Callers :
    /\ tasks[t].pc = "join"
    /\ LET bad == {c \in Kids(t) : tasks[c].pc = "done" /\ tasks[c].res.kind = "err"}
       IN  IF bad # {}
             THEN \E c \in bad : Commit(JoinStep(Pack(t), c))
             ELSE /\ \A c \in Kids(t) : tasks[c].pc = "done"
                  /\ Commit(JoinStep(Pack(t), NULL))
    /\ UNCHANGED <<started, env, history>>

DisposeCall ==
  /\ Commit(Dispose(Pack(1)))
  /\ history' = [Cleared(history) EXCEPT !.disposed = TRUE]
  /\ UNCHANGED <<started, env>>

ClearCachesCall ==
  /\ this.addressCache # {} \/ this.publicKeyCache # {}
  /\ Commit(ClearCaches(Pack(1)))
  /\ history' = Cleared(history)
  /\ UNCHANGED <<started, env>>

\* ------------------------------------------------------- initial states
NoAccount ==
  [getSeed |-> None, seed |-> NoSeed, getAccountIndex |-> None, accountIndex |-> None,
   getAddressIndex |-> None, addressIndex |-> None]

InitFrom(accounts, configs, envs, tracking) ==
  /\ \E account \in accounts, config \in configs :
       /\ this = NewProtocol(account, config)
       /\ history = [account |-> account, config |-> config, disposed |-> FALSE,
                     initializeCalled |-> FALSE, tracking |-> tracking, log |-> <<>>]
  /\ engines = <<>>
  /\ ecdsaSigners = <<>>
  /\ mldsaSigners = <<>>
  /\ zeroed = {}
  /\ objs = <<>>
  /\ tasks = [t \in TaskIds |-> IdleTask]
  /\ started = 0
  /\ env \in envs

InitWith(accounts, configs, envs) == InitFrom(accounts, configs, envs, FALSE)

Steps ==
  \/ SeedReturned
  \/ AccountIndexReturned
  \/ AddressIndexReturned
  \/ MnemonicToSeedReturned
  \/ EngineInitialized
  \/ MLDSAGenerated
  \/ KeyDerived
  \/ Ensured
  \/ Signed
  \/ Joined
  \/ DisposeCall

\* --- overlapping calls on one coordinator
Configs ==
  {[DefaultConfig EXCEPT !.ecdsaEnabled = e, !.mldsaEnabled = m, !.seed = s] :
     e \in BOOLEAN, m \in BOOLEAN, s \in {NoSeed, "bytes"}}
Accounts == {[NoAccount EXCEPT !.getSeed = Some("mnemonic")]}
Envs == {[pqAvailable |-> TRUE, strictHex |-> h] : h \in BOOLEAN}

Init == InitWith(Accounts, Configs, Envs)
Next == ConcurrentCall \/ Steps
Spec == Init /\ [][Next]_vars

\* --- one caller, every method, every configuration
SeedSources ==
  {<<NoSeed, NoAccount>>, <<"bytes", NoAccount>>,
   <<NoSeed, [NoAccount EXCEPT !.getSeed = Some("mnemonic")]>>}
SeqConfigs ==
  {[DefaultConfig EXCEPT !.ecdsaEnabled = e, !.mldsaEnabled = m, !.autoInitialize = au,
                         !.defaultSignatureType = d] :
     e \in BOOLEAN, m \in BOOLEAN, au \in BOOLEAN, d \in SignatureTypes}
SeqEnvs == {[pqAvailable |-> TRUE, strictHex |-> FALSE],
            [pqAvailable |-> FALSE, strictHex |-> TRUE]}

InitSeq ==
  \E src \in SeedSources, config \in SeqConfigs :
    InitWith({src[2]}, {[config EXCEPT !.seed = src[1]]}, SeqEnvs)
NextSeq == Call \/ Steps \/ Continued \/ ClearCachesCall
SpecSeq == InitSeq /\ [][NextSeq]_vars

\* --- one caller, the life cycle: every seed source, every security level,
\* the references that the cached queries return
LifeOps == {"initialize", "getAddresses", "getPublicKeys", "signWithMLDSA"}
LifeAccounts ==
  {[NoAccount EXCEPT !.getSeed = g, !.seed = s] :
     g \in {None, Some("mnemonic"), Some(NoSeed)}, s \in {NoSeed, "bytes"}}
LifeConfigs ==
  {[DefaultConfig EXCEPT !.ecdsaEnabled = e, !.mldsaEnabled = m, !.seed = s,
                         !.mldsaAlgorithm = l] :
     e \in BOOLEAN, m \in BOOLEAN, s \in {NoSeed, "bytes"},
     l \in {"ML-DSA-44", "ML-DSA-65", "ML-DSA-87"}}

LifeCall == \E op \in LifeOps : StartCall(1, op, "msg", "undefined")

InitLife == InitFrom(LifeAccounts, LifeConfigs, SeqEnvs, TRUE)
NextLife ==
  \/ LifeCall
  \/ SeedReturned
  \/ AccountIndexReturned
  \/ AddressIndexReturned
  \/ MnemonicToSeedReturned
  \/ EngineInitialized
  \/ MLDSAGenerated
  \/ KeyDerived
  \/ Ensured
  \/ DisposeCall
  \/ ClearCachesCall
SpecLife == InitLife /\ [][NextLife]_vars

\* --- one caller, on coordinators whose account and configuration give the
\* account index and the address index in every combination of override,
\* account method and account property
IndexAccounts ==
  {[NoAccount EXCEPT !.getSeed = Some("mnemonic"),
                     !.getAccountIndex = m, !.accountIndex = p,
                     !.getAddressIndex = n, !.addressIndex = q] :
     m \in {None, Some(2)}, p \in {None, Some(3)},
     n \in {None, Some(2)}, q \in {None, Some(3)}}
IndexConfigs ==
  {[DefaultConfig EXCEPT !.mldsaEnabled = e, !.accountIndex = o, !.addressIndex = r] :
     e \in BOOLEAN, o \in {None, Some(0), Some(1)}, r \in {None, Some(0)}}
InitIndex == InitFrom(IndexAccounts, IndexConfigs, SeqEnvs, FALSE)
SpecIndex == InitIndex /\ [][NextLife]_vars


\* --- the engine used directly: two callers derive keys from one engine
EngineSeeds == {"mnemonic", "bytes", NoSeed}
IndexArgs == {None, Some(0), Some(1)}
DeriveRoute(alg) == IF alg = "ECDSA" THEN "deriveECDSAKey" ELSE "deriveMLDSAKey"

\* deriveECDSAKey(a, i) / deriveMLDSAKey(a, i) on the engine, up to the
\* first suspension
DeriveOn(e, indices) ==
  \E t \in Callers, alg \in {"ECDSA", "MLDSA"}, a \in indices, i \in indices :
    /\ started < MaxCalls
    /\ Free(t)
    /\ \A u \in Callers : u < t => ~Free(u)
    /\ Commit(EngineInitialize(
                [Pack(t) EXCEPT !.tasks[t] =
                   [IdleTask EXCEPT !.op = DeriveRoute(alg), !.route = DeriveRoute(alg),
                                    !.alg = alg, !.eng = e, !.a = a, !.i = i]]))
    /\ started' = started + 1
    /\ UNCHANGED <<env, history>>
DeriveCall == DeriveOn(1, IndexArgs)

\* dispose() on the engine
EngineDisposeCall ==
  /\ Commit(EngineDispose(Pack(1), 1))
  /\ UNCHANGED <<started, env, history>>

InitEngine ==
  /\ \E seed \in EngineSeeds : engines = <<NewEngine(seed)>>
  /\ this = NewProtocol(NoAccount, DefaultConfig)
  /\ history = [account |-> NoAccount, config |-> DefaultConfig, disposed |-> FALSE,
                initializeCalled |-> FALSE, tracking |-> FALSE, log |-> <<>>]
  /\ ecdsaSigners = <<>>
  /\ mldsaSigners = <<>>
  /\ zeroed = {}
  /\ objs = <<>>
  /\ tasks = [t \in TaskIds |-> IdleTask]
  /\ started = 0
  /\ env \in SeqEnvs
NextEngine ==
  \/ DeriveCall
  \/ MnemonicToSeedReturned
  \/ EngineInitialized
  \/ MLDSAGenerated
  \/ EngineDisposeCall
SpecEngine == InitEngine /\ [][NextEngine]_vars

\* --- two engines built from the same seed: the same mnemonic string, or
\* the same Uint8Array, which both engines then refer to.  history.config.seed
\* remembers the seed they were built from.
PairDeriveCall == \E e \in {1, 2} : DeriveOn(e, {None, Some(1)})
PairDisposeCall ==
  \E e \in {1, 2} :
    /\ engines[e].seed # NoSeed
    /\ Commit(EngineDispose(Pack(1), e))
    /\ UNCHANGED <<started, env, history>>
InitPair ==
  /\ \E seed \in {"mnemonic", "bytes"} :
       /\ engines = <<NewEngine(seed), NewEngine(seed)>>
       /\ history = [account |-> NoAccount, config |-> [DefaultConfig EXCEPT !.seed = seed],
                     disposed |-> FALSE, initializeCalled |-> FALSE, tracking |-> FALSE,
                     log |-> <<>>]
  /\ this = NewProtocol(NoAccount, DefaultConfig)
  /\ ecdsaSigners = <<>>
  /\ mldsaSigners = <<>>
  /\ zeroed = {}
  /\ objs = <<>>
  /\ tasks = [t \in TaskIds |-> IdleTask]
  /\ started = 0
  /\ env \in SeqEnvs
NextPair ==
  \/ PairDeriveCall
  \/ MnemonicToSeedReturned
  \/ EngineInitialized
  \/ MLDSAGenerated
  \/ PairDisposeCall
SpecPair == InitPair /\ [][NextPair]_vars

\* --- the two signers used on their own: a caller builds an MLDSASigner from
\* a key pair object, calls sign() and verify() of either signer, verifies
\* what sign() returned (a round trip), and disposes of a signer
SignerRoute(kind, method) ==
  (IF kind = "ECDSA" THEN "ECDSASigner." ELSE "MLDSASigner.") \o method

\* what the caller hands to verify() as the signature: "compact" and "junk"
\* for the classical signer (see ECDSAVerify); for the post-quantum signer
\* "sized", bytes of the signer's signature size that nobody signed, and
\* "short", three bytes.  A round trip hands over "signed": the object that
\* sign(data) has just returned, kept in the call's res.  "badkey" is the
\* compact hex together with a publicKey argument that is no curve point.
SignatureArgs(kind) ==
  IF kind = "ECDSA" THEN SigArgs \cup {"badkey"} ELSE {"sized", "short"}
SignatureBytes(S, signer) ==
  CASE Tk(S).type = "signed" -> Val(Tk(S).res.mldsa)
    [] Tk(S).type = "sized" ->
         Signature("none", None, "", "", ML_DSA_LEVELS[signer.algorithm].signatureSize,
                   FALSE)
    [] OTHER -> Signature("none", None, "", "", 3, FALSE)

\* MLDSASigner.verify, lines 221-223: the size of the signature decides
SizeOnly(signer, sig) == sig.size = ML_DSA_LEVELS[signer.algorithm].signatureSize

\* MLDSASigner.verify resumed after `await import('@noble/post-quantum')`:
\* the module has no export named ml_dsa_65, so the size decides here too
MLDSAVerifyImported(S) ==
  LET signer == S.mldsaSigners[Tk(S).signer]
  IN  Return(S, [OkRes EXCEPT !.flag = SizeOnly(signer, SignatureBytes(S, signer))])

\* MLDSASigner.verify up to its first suspension: whatever throws inside is
\* caught and answered with false
MLDSAVerify(S, s) ==
  LET signer == S.mldsaSigners[s]
  IN  IF ~DataSupported(Tk(S).data) THEN Return(S, OkRes)
      ELSE IF signer.hasRealImplementation
             THEN [S EXCEPT !.tasks[S.cur].pc = "V_imp", !.tasks[S.cur].signer = s]
      ELSE Return(S, [OkRes EXCEPT !.flag = SizeOnly(signer, SignatureBytes(S, signer))])

\* a verify() without its try/catch: what throws inside reaches the caller
\* (C21 tells it from the real one)
SignerVerifyUncaught(S) ==
  IF ~DataSupported(Tk(S).data) THEN Throw(S, "UnsupportedDataTypeError")
  ELSE IF Tk(S).alg = "ECDSA"
    THEN IF S.ecdsaSigners[1].publicKey = None \/ Tk(S).type # "compact"
           THEN Throw(S, "VerifyError")
           ELSE Return(S, [OkRes EXCEPT !.flag = TRUE])
    ELSE MLDSAVerify(S, 1)

\* verify(data, signature) of either signer
SignerVerify(S) ==
  IF Tk(S).alg = "ECDSA"
    THEN Return(S, [OkRes EXCEPT !.flag =
                      ECDSAVerify(S.ecdsaSigners[1], Tk(S).data, Tk(S).type)])
    ELSE MLDSAVerify(S, 1)

\* the options objects handed to ECDSASigner.sign: none, { hashMessage:
\* false }, { addPrefix: true }, { hashMessage: false, addPrefix: true }
SignOptions == {"undefined", "raw", "prefixed", "rawPrefixed"}
\* const { hashMessage = true, addPrefix = false } = options
HashMessage(options) == options \notin {"raw", "rawPrefixed"}
AddPrefix(options) == options \in {"prefixed", "rawPrefixed"}
\* what secp256k1.sign is handed: the hash of the message, the hash of the
\* prefixed message (as in signMessage), or one of them unhashed
SignMode(hashMessage, addPrefix) ==
  IF hashMessage THEN (IF addPrefix THEN "signMessage" ELSE "sign")
  ELSE (IF addPrefix THEN "rawPrefixed" ELSE "raw")

\* sign(data, options) of either signer, up to its first suspension
SignerSign(S) ==
  IF Tk(S).alg = "ECDSA"
    THEN LET r == ECDSASign(S.ecdsaSigners[1], Tk(S).data,
                            SignMode(HashMessage(Tk(S).type), AddPrefix(Tk(S).type)),
                            S.env.strictHex)
         IN  IF r.kind = "err" THEN Throw(S, r.err)
             ELSE [S EXCEPT !.tasks[S.cur].pc = "S_ret", !.tasks[S.cur].res = r]
    ELSE MLDSASign(S, 1, Tk(S).data)

\* `await signer.sign(data)` has its value: a round trip goes on with
\* verify(data, signature)
SignerSigned(S) ==
  IF Tk(S).op = "roundTrip"
    THEN SignerVerify([S EXCEPT !.tasks[S.cur].type = "signed"])
    ELSE Return(S, Tk(S).res)

\* _signWithRealImplementation resumed after its import
SignerSignImported(S) ==
  LET r == MLDSASignImported(S).tasks[S.cur].res
  IN  [S EXCEPT !.tasks[S.cur].pc = "S_ret", !.tasks[S.cur].res = r]

\* key pair objects for `new MLDSASigner(keyPair)`: the one deriveMLDSAKey
\* returns, and the same object with its algorithm renamed to a key of
\* ML_DSA_LEVELS and its placeholder mark absent or set
DerivedMLDSAKey(pqAvailable) ==
  MLDSAKeyMaterial(MasterOf("bytes", {}), None, None, pqAvailable)
MLDSAKeyPairs(pqAvailable) ==
  {DerivedMLDSAKey(pqAvailable)} \cup
  {[DerivedMLDSAKey(pqAvailable) EXCEPT !.algorithm = level, !.placeholder = p] :
     level \in DOMAIN ML_DSA_LEVELS, p \in {None, Some(TRUE)}}

\* new MLDSASigner(keyPair)
NewSignerCall ==
  \E t \in Callers, keyPair \in MLDSAKeyPairs(env.pqAvailable) :
    /\ started < MaxCalls
    /\ Free(t)
    /\ \A u \in Callers : u < t => ~Free(u)
    /\ mldsaSigners = <<>>
    /\ LET S == [Pack(t) EXCEPT !.tasks[t] =
                   [IdleTask EXCEPT !.op = "new", !.route = "new MLDSASigner",
                                    !.alg = "MLDSA", !.type = IF keyPair = DerivedMLDSAKey(env.pqAvailable)
                                                THEN "derived" ELSE "built"]]
       IN  Commit(IF keyPair.privateKey = None \/ keyPair.publicKey = None
                    THEN Throw(S, "InvalidKeyPairError")
                  ELSE IF ~MLDSASignerCtorOk(keyPair)
                    THEN Throw(S, "UnknownAlgorithmError")
                  ELSE Return([S EXCEPT !.mldsaSigners = <<NewMLDSASigner(keyPair)>>],
                              OkRes))
    /\ started' = started + 1
    /\ UNCHANGED <<env, history>>

\* sign(data, options), verify(data, signature), or
\* verify(data, await sign(data))
SignerCall ==
  \E t \in Callers, kind \in {"ECDSA", "MLDSA"}, data \in Data,
     method \in {"sign", "verify", "roundTrip"} :
    \E sig \in IF method = "verify" THEN SignatureArgs(kind)
               ELSE IF method = "sign" /\ kind = "ECDSA" THEN SignOptions
               ELSE {"undefined"} :
      /\ started < MaxCalls
      /\ Free(t)
      /\ \A u \in Callers : u < t => ~Free(u)
      /\ kind = "MLDSA" => mldsaSigners # <<>>
      /\ LET S == [Pack(t) EXCEPT !.tasks[t] =
                     [IdleTask EXCEPT !.op = method, !.route = SignerRoute(kind, method),
                                      !.alg = kind, !.data = data, !.type = sig]]
         IN  Commit(IF method = "verify" THEN SignerVerify(S) ELSE SignerSign(S))
      /\ started' = started + 1
      /\ UNCHANGED <<env, history>>

SignImported == \E t \in Callers : Resume(t, "S_imp", SignerSignImported)
SignReturned == \E t \in Callers : Resume(t, "S_ret", SignerSigned)
VerifyImported == \E t \in Callers : Resume(t, "V_imp", MLDSAVerifyImported)

\* dispose() of a signer that still holds its keys
SignerDisposeCall ==
  /\ \/ /\ ecdsaSigners[1].publicKey # None
        /\ Commit(ECDSASignerDispose(Pack(1), 1))
     \/ /\ mldsaSigners # <<>>
        /\ mldsaSigners[1].publicKey # None
        /\ Commit(MLDSASignerDispose(Pack(1), 1))
  /\ UNCHANGED <<started, env, history>>

InitSigner ==
  /\ ecdsaSigners = <<NewECDSASigner(ECDSAKeyMaterial(MasterOf("bytes", {}), None, None))>>
  /\ mldsaSigners = <<>>
  /\ engines = <<>>
  /\ this = NewProtocol(NoAccount, DefaultConfig)
  /\ history = [account |-> NoAccount, config |-> DefaultConfig, disposed |-> FALSE,
                initializeCalled |-> FALSE, tracking |-> FALSE, log |-> <<>>]
  /\ zeroed = {}
  /\ objs = <<>>
  /\ tasks = [t \in TaskIds |-> IdleTask]
  /\ started = 0
  /\ env \in SeqEnvs
NextSigner ==
  \/ NewSignerCall
  \/ SignerCall
  \/ SignImported
  \/ SignReturned
  \/ VerifyImported
  \/ SignerDisposeCall
SpecSigner == InitSigner /\ [][NextSigner]_vars

\* ======================================================== WDK (wdk-manager)
\* In this specification `this` is the WDK instance: the blockchains that have
\* a wallet, and _protocols as the set of <<type, blockchain, label>> that
\* registerProtocol has filled in.  objs holds the account objects the wallets
\* have handed out: `protocols` is the map that the account's current
\* registerProtocol / get...Protocol closures share, `registered` remembers
\* everything that was ever registered on the account, `handed` whether
\* getAccount has returned it to the caller, `offered` what registerProtocol
\* of the WDK had been called with when it last did.  `middlewares` is
\* _middlewares, `created` and `disposals` count the wallets built under a
\* name and the dispose() calls made on them.  tasks[1] is a
\* getAccount call, tasks[2] the caller's latest synchronous call.
MaxOps == 4            \* calls made on the WDK and its accounts in one behaviour
ProtocolTypes == {"swap", "bridge", "lending", "fiat"}
\* names that every plain object inherits from Object.prototype
InheritedLabels == {"toString"}

\* registerWallet(blockchain, WalletManager, config): a new wallet, set in
\* the map under that name (in the place of the one that was there)
RegisterWallet(wdk, blockchain) ==
  [wdk EXCEPT !.wallets = @ \cup {blockchain}, !.created[blockchain] = @ + 1]

\* registerProtocol(blockchain, label, Protocol, config): a class that
\* extends none of the four protocol types is ignored.  `asked` remembers
\* what the method was called with.
RegisterProtocol(wdk, blockchain, label, type) ==
  IF type \in ProtocolTypes
    THEN [wdk EXCEPT !.protocols = @ \cup {<<type, blockchain, label>>},
                     !.asked = @ \cup {<<type, blockchain, label>>}]
    ELSE [wdk EXCEPT !.asked = @ \cup {<<type, blockchain, label>>}]

\* registerMiddleware(blockchain, middleware): _middlewares is a plain
\* object, `??=` leaves an inherited member in place and it has no push
RegisterMiddleware(wdk, blockchain, middleware) ==
  IF blockchain \in InheritedLabels
    THEN wdk
    ELSE [wdk EXCEPT !.middlewares[blockchain] = Append(@, middleware)]

\* dispose(): wallet.dispose() on every wallet of the map, then clear()
WdkDispose(wdk) ==
  [wdk EXCEPT !.wallets = {},
              !.disposals = [b \in DOMAIN @ |->
                               IF b \in wdk.wallets THEN @[b] + 1 ELSE @[b]]]

\* a variant of _runMiddlewares that leaves the loop after its first
\* middleware
RunMiddlewaresOnce(task, wdk, k) ==
  IF task.data \in InheritedLabels
    THEN [task EXCEPT !.pc = "W_ret", !.res = ErrRes("TypeError")]
  ELSE IF k <= Len(wdk.middlewares[task.data]) /\ k <= 1
    THEN [task EXCEPT !.pc = "W_mw", !.i = Some(k),
                      !.rest = Append(@, <<"called", wdk.middlewares[task.data][k]>>)]
  ELSE [task EXCEPT !.pc = "W_ret"]

\* _runMiddlewares(account, { blockchain }) from the k-th element of the
\* array on: the middleware is called and awaited, or the loop is over.
\* `rest` is the record of the calls made to middlewares for this account.
RunMiddlewares(task, wdk, k) ==
  IF task.data \in InheritedLabels
    THEN [task EXCEPT !.pc = "W_ret", !.res = ErrRes("TypeError")]  \* not iterable
  ELSE IF k <= Len(wdk.middlewares[task.data])
    THEN [task EXCEPT !.pc = "W_mw", !.i = Some(k),
                      !.rest = Append(@, <<"called", wdk.middlewares[task.data][k]>>)]
  ELSE [task EXCEPT !.pc = "W_ret"]

\* _registerProtocols(account, { blockchain }): a new, empty map, and new
\* closures over it assigned to the account
RegisterProtocols(account) == [account EXCEPT !.protocols = {}, !.handed = TRUE]

\* account.registerProtocol(label, Protocol, config)
AccountRegisterProtocol(account, label, type) ==
  IF type \in ProtocolTypes
    THEN [account EXCEPT !.protocols = @ \cup {<<type, label>>},
                         !.registered = @ \cup {<<type, label>>}]
    ELSE account

\* account.getSwapProtocol(label) and its three siblings; the account has no
\* other getter
GetProtocol(wdk, account, type, label) ==
  IF type \notin ProtocolTypes
    THEN ErrRes("TypeError")            \* account.get...Protocol is not a function
  ELSE IF \E e \in wdk.protocols : e[1] = type /\ e[2] = account.blockchain
       /\ (e[3] = label \/ label \in InheritedLabels)
    THEN IF <<type, account.blockchain, label>> \in wdk.protocols
           THEN [OkRes EXCEPT !.data = "protocol"]
           ELSE ErrRes("TypeError")     \* `new Protocol` with Protocol undefined
  ELSE IF <<type, label>> \in account.protocols
         THEN [OkRes EXCEPT !.data = "protocol"]
  ELSE IF label \in InheritedLabels
         THEN [OkRes EXCEPT !.data = "function"]    \* protocols.swap.toString
  ELSE ErrRes("NoProtocolError")

\* the record of a synchronous call that has returned
Called(op, route, type, label, account, r) ==
  [IdleTask EXCEPT !.op = op, !.route = route, !.type = type, !.data = label,
                   !.val = account, !.pc = "done", !.res = r]

Blockchains == {"ethereum", "ton"}
WalletNames == Blockchains \cup InheritedLabels
Labels == {"paraswap", "toString"}
\* "dual" is DualSignatureProtocol, "other" any other class that extends
\* none of the four protocol types
ProtocolClasses == {"swap", "lending", "dual", "other"}

\* wdk.registerWallet(blockchain, WalletManager, config)
RegisterWalletCall ==
  \E blockchain \in WalletNames :
    /\ started < MaxOps
    /\ this' = RegisterWallet(this, blockchain)
    /\ tasks' = [tasks EXCEPT ![2] = Called("registerWallet", "WDK.registerWallet",
                                            "", blockchain, None, OkRes)]
    /\ started' = started + 1
    /\ UNCHANGED <<engines, ecdsaSigners, mldsaSigners, zeroed, objs, env, history>>

\* wdk.registerProtocol(blockchain, label, Protocol, config)
RegisterProtocolCall ==
  \E blockchain \in Blockchains, type \in ProtocolClasses :
    /\ started < MaxOps
    /\ this' = RegisterProtocol(this, blockchain, "paraswap", type)
    /\ tasks' = [tasks EXCEPT ![2] = Called("registerProtocol", "WDK.registerProtocol",
                                            type, "paraswap", None, OkRes)]
    /\ started' = started + 1
    /\ UNCHANGED <<engines, ecdsaSigners, mldsaSigners, zeroed, objs, env, history>>

\* wdk.registerMiddleware(blockchain, middleware), with a function that was
\* not registered before
RegisterMiddlewareCall ==
  \E blockchain \in WalletNames :
    /\ started < MaxOps
    /\ this' = RegisterMiddleware(this, blockchain, started + 1)
    /\ tasks' = [tasks EXCEPT ![2] =
         Called("registerMiddleware", "WDK.registerMiddleware", "", blockchain, None,
                IF blockchain \in InheritedLabels THEN ErrRes("TypeError") ELSE OkRes)]
    /\ started' = started + 1
    /\ UNCHANGED <<engines, ecdsaSigners, mldsaSigners, zeroed, objs, env, history>>

\* wdk.dispose()
WdkDisposeCall ==
  /\ started < MaxOps
  /\ this' = WdkDispose(this)
  /\ tasks' = [tasks EXCEPT ![2] = Called("dispose", "WDK.dispose", "", "", None, OkRes)]
  /\ started' = started + 1
  /\ UNCHANGED <<engines, ecdsaSigners, mldsaSigners, zeroed, objs, env, history>>

\* wdk.getAccount(blockchain, 0) / wdk.getAccountByPath(blockchain, "0'/0/0"),
\* up to `await wallet.getAccount(index)`.  ready0 remembers whether a wallet
\* was registered under the name, `a` how many middlewares were.
GetAccountCall ==
  \E blockchain \in WalletNames \cup {"tron"},
     route \in {"getAccount", "getAccountByPath"} :
    /\ started < MaxOps
    /\ Free(1)
    /\ tasks' = [tasks EXCEPT ![1] =
         IF blockchain \notin this.wallets
           THEN [IdleTask EXCEPT !.op = "getAccount", !.route = route,
                                 !.data = blockchain, !.pc = "done",
                                 !.res = ErrRes("NoWalletError")]
           ELSE [IdleTask EXCEPT !.op = "getAccount", !.route = route,
                                 !.data = blockchain, !.pc = "W_acct",
                                 !.ready0 = TRUE,
                                 !.a = IF blockchain \in Blockchains
                                         THEN Some(Len(this.middlewares[blockchain]))
                                         ELSE None]]
    /\ started' = started + 1
    /\ UNCHANGED <<this, engines, ecdsaSigners, mldsaSigners, zeroed, objs, env, history>>

\* the wallet hands out the account: the object it handed out before for
\* this index, if it keeps its accounts, or a new one; getAccount goes on
\* to `await this._runMiddlewares(account, { blockchain })`
WalletReturned ==
  /\ tasks[1].pc = "W_acct"
  /\ LET kept == {a \in DOMAIN objs : objs[a].blockchain = tasks[1].data}
     IN  IF env.keepsAccounts /\ kept # {}
           THEN /\ objs' = objs
                /\ tasks' = [tasks EXCEPT ![1] =
                     RunMiddlewares([@ EXCEPT !.val = Some(CHOOSE a \in kept : TRUE)],
                                    this, 1)]
           ELSE /\ objs' = Append(objs, [kind |-> "account", blockchain |-> tasks[1].data,
                                         protocols |-> {}, registered |-> {},
                                         handed |-> FALSE, offered |-> {}])
                /\ tasks' = [tasks EXCEPT ![1] =
                     RunMiddlewares([@ EXCEPT !.val = Some(Len(objs) + 1)], this, 1)]
  /\ UNCHANGED <<this, engines, ecdsaSigners, mldsaSigners, zeroed, started, env, history>>

\* the middleware that _runMiddlewares awaits has returned, or has thrown:
\* the loop goes on with the array as it is now, or _runMiddlewares rejects
MiddlewareReturned ==
  \E ok \in BOOLEAN :
    /\ tasks[1].pc = "W_mw"
    /\ LET k == Val(tasks[1].i)
           m == this.middlewares[tasks[1].data][k]
       IN  tasks' = [tasks EXCEPT ![1] =
             IF ok THEN RunMiddlewares([@ EXCEPT !.rest = Append(@, <<"returned", m>>)],
                                       this, k + 1)
                   ELSE [@ EXCEPT !.pc = "W_ret", !.res = ErrRes("MiddlewareError")]]
    /\ UNCHANGED <<this, engines, ecdsaSigners, mldsaSigners, zeroed, objs, started, env,
                   history>>

\* getAccount resumed after `await this._runMiddlewares(...)`:
\* _registerProtocols(account, { blockchain }) and return, or the rejection
MiddlewaresReturned ==
  /\ tasks[1].pc = "W_ret"
  /\ LET a == Val(tasks[1].val)
     IN  IF tasks[1].res.kind = "err"
           THEN /\ objs' = objs
                /\ tasks' = [tasks EXCEPT ![1].pc = "done"]
           ELSE /\ objs' = [objs EXCEPT ![a] =
                            [RegisterProtocols(@) EXCEPT !.offered = this.asked]]
                /\ tasks' = [tasks EXCEPT ![1].pc = "done",
                                          ![1].res = [OkRes EXCEPT !.obj = a]]
  /\ UNCHANGED <<this, engines, ecdsaSigners, mldsaSigners, zeroed, started, env, history>>

\* wdk.getFeeRates(blockchain), up to `await wallet.getFeeRates()`
GetFeeRatesCall ==
  \E blockchain \in WalletNames \cup {"tron"} :
    /\ started < MaxOps
    /\ Free(3)
    /\ tasks' = [tasks EXCEPT ![3] =
         IF blockchain \notin this.wallets
           THEN [IdleTask EXCEPT !.op = "getFeeRates", !.route = "getFeeRates",
                                 !.data = blockchain, !.pc = "done",
                                 !.res = ErrRes("NoWalletError")]
           ELSE [IdleTask EXCEPT !.op = "getFeeRates", !.route = "getFeeRates",
                                 !.data = blockchain, !.pc = "W_fee",
                                 !.ready0 = TRUE]]
    /\ started' = started + 1
    /\ UNCHANGED <<this, engines, ecdsaSigners, mldsaSigners, zeroed, objs, env, history>>

\* the wallet's fee rates have arrived
FeeRatesReturned ==
  /\ tasks[3].pc = "W_fee"
  /\ tasks' = [tasks EXCEPT ![3].pc = "done", ![3].res = [OkRes EXCEPT !.data = "feeRates"]]
  /\ UNCHANGED <<this, engines, ecdsaSigners, mldsaSigners, zeroed, objs, started, env,
                 history>>

\* the accounts the caller has got from getAccount
Handed == {a \in DOMAIN objs : objs[a].handed}

\* account.registerProtocol(label, Protocol, config)
AccountRegisterCall ==
  \E a \in Handed, label \in Labels, type \in ProtocolClasses :
    /\ started < MaxOps
    /\ objs' = [objs EXCEPT ![a] = AccountRegisterProtocol(@, label, type)]
    /\ tasks' = [tasks EXCEPT ![2] = Called("registerProtocol", "account.registerProtocol",
                                            type, label, Some(a), OkRes)]
    /\ started' = started + 1
    /\ UNCHANGED <<this, engines, ecdsaSigners, mldsaSigners, zeroed, env, history>>

\* account.getSwapProtocol(label) / getBridgeProtocol / getLendingProtocol /
\* getFiatProtocol, and the getDualSignatureProtocol(label) of the guides
GetProtocolCall ==
  \E a \in Handed, label \in Labels, type \in {"swap", "lending", "fiat", "dual"} :
    /\ started < MaxOps
    /\ tasks' = [tasks EXCEPT ![2] = Called("getProtocol", "account.getProtocol", type,
                                            label, Some(a),
                                            GetProtocol(this, objs[a], type, label))]
    /\ started' = started + 1
    /\ UNCHANGED <<this, engines, ecdsaSigners, mldsaSigners, zeroed, objs, env, history>>

\* a WDK on which a wallet was registered for each of the blockchains
InitWdk ==
  /\ this = [wallets |-> Blockchains, protocols |-> {}, asked |-> {},
             middlewares |-> [b \in Blockchains |-> <<>>],
             created |-> [b \in WalletNames |-> IF b \in Blockchains THEN 1 ELSE 0],
             disposals |-> [b \in WalletNames |-> 0]]
  /\ env \in {[keepsAccounts |-> k] : k \in BOOLEAN}
  /\ history = [account |-> NoAccount, config |-> DefaultConfig, disposed |-> FALSE,
                initializeCalled |-> FALSE, tracking |-> FALSE, log |-> <<>>]
  /\ engines = <<>>
  /\ ecdsaSigners = <<>>
  /\ mldsaSigners = <<>>
  /\ zeroed = {}
  /\ objs = <<>>
  /\ tasks = [t \in TaskIds |-> IdleTask]
  /\ started = 0
\* the WDK and its accounts used with protocols, no middleware registered
NextWdk ==
  \/ RegisterProtocolCall
  \/ GetAccountCall
  \/ WalletReturned
  \/ MiddlewaresReturned
  \/ AccountRegisterCall
  \/ GetProtocolCall
SpecWdk == InitWdk /\ [][NextWdk]_vars
\* the WDK used with wallets and middlewares
NextWallets ==
  \/ RegisterWalletCall
  \/ RegisterMiddlewareCall
  \/ WdkDisposeCall
  \/ GetAccountCall
  \/ WalletReturned
  \/ MiddlewareReturned
  \/ MiddlewaresReturned
  \/ GetFeeRatesCall
  \/ FeeRatesReturned
SpecWallets == InitWdk /\ [][NextWallets]_vars

\* =========================================================== properties
\* a top-level call that has returned or thrown
Finished(t) == tasks[t].pc = "done"
\* the constructor's arguments resolve to a seed: lines 60-70 (an account
\* with a getSeed method is asked, whatever else it has)
SeedResolvable ==
  \/ history.config.seed # NoSeed
  \/ history.account.getSeed # None /\ Val(history.account.getSeed) # NoSeed
  \/ history.account.getSeed = None /\ history.account.seed # NoSeed

\* ---- C1
\* C1: once dispose() has returned, isInitialized() is false in every later
\* state, whatever call was suspended when dispose() ran and whatever is
\* called afterwards.
C1_DisposedNeverInitialized == history.disposed => ~this.initialized

\* an initialization that dispose() overtook has resumed and ended, and the
\* coordinator is disposed
C1_Witness ==
  /\ history.disposed
  /\ \E t \in Callers :
       /\ Finished(t)
       /\ tasks[t].late
       /\ ~tasks[t].ready0
       /\ ~tasks[t].gone0
       /\ tasks[t].res.err = "InitializationError"

\* ---- C2
\* C2: once dispose() has returned, the coordinator holds no engine and no
\* signer in any later state, also when an initialization was suspended
\* while dispose() ran and resumes afterwards.
C2_DisposedHoldsNothing ==
  history.disposed =>
    /\ this.keyDerivation = NULL
    /\ this.ecdsaSigner = NULL
    /\ this.mldsaSigner = NULL

\* ---- C3
\* C3: whatever the interleaving of the calls, at most one engine and at
\* most one signer of each kind is ever constructed.
C3_ConstructedAtMostOnce ==
  /\ Len(engines) <= 1
  /\ Len(ecdsaSigners) <= 1
  /\ Len(mldsaSigners) <= 1

\* ---- C4
\* C4: initialize() on a coordinator whose seed can be resolved ends with
\* isInitialized() true and with a signer for exactly the enabled
\* algorithms, whatever the enabled flags are.
C4_InitializeMakesReady ==
  \A t \in Callers :
    (/\ Finished(t)
     /\ tasks[t].op = "initialize"
     /\ ~tasks[t].gone0
     /\ ~history.disposed
     /\ SeedResolvable)
    => /\ tasks[t].res.kind = "ok"
       /\ this.initialized
       /\ (this.ecdsaSigner # NULL) <=> history.config.ecdsaEnabled
       /\ (this.mldsaSigner # NULL) <=> history.config.mldsaEnabled

\* ---- C5
\* the calls that begin with _ensureInitialized()
AutoOps == Ops \ {"initialize"}
\* an options.type that names no signature type
Unrecognised(type) == ~Falsy(type) /\ type \notin SignatureTypes

\* C5: with autoInitialize true, a signing, verification, address or
\* key-query call made on a coordinator that is not yet initialized and whose
\* seed can be resolved leaves isInitialized() true when it returns (sign()
\* with a type it does not know is left out: it is rejected before anything
\* else happens).
C5_CallsAutoInitialize ==
  \A t \in Callers :
    (/\ Finished(t)
     /\ tasks[t].op \in AutoOps
     /\ ~(tasks[t].op = "sign" /\ Unrecognised(tasks[t].type))
     /\ history.config.autoInitialize
     /\ ~tasks[t].ready0
     /\ ~tasks[t].gone0
     /\ ~history.disposed
     /\ SeedResolvable)
    => this.initialized

DualSignEnded(t) == Finished(t) /\ tasks[t].route = "dualSign"

\* C7: in a result that dualSign returns, the ecdsa branch is null exactly
\* when ECDSA is disabled and the mldsa branch is null exactly when ML-DSA is
\* disabled; and when one of its two signing calls has failed, dualSign has
\* raised an error.
C7_NullIffDisabled ==
  \A t \in Callers :
    DualSignEnded(t) =>
      /\ tasks[t].res.kind = "ok" =>
           /\ (tasks[t].res.ecdsa = None) <=> ~history.config.ecdsaEnabled
           /\ (tasks[t].res.mldsa = None) <=> ~history.config.mldsaEnabled
      /\ (\E c \in {EcdsaChild(t), MldsaChild(t)} :
            Finished(c) /\ tasks[c].res.kind = "err")
         => tasks[t].res.kind = "err"

\* dualSign has returned a result with one branch signed and the other,
\* disabled, null
C7_Witness ==
  \E t \in Callers :
    /\ DualSignEnded(t)
    /\ tasks[t].res.kind = "ok"
    /\ tasks[t].res.ecdsa # None
    /\ tasks[t].res.mldsa = None
    /\ history.config.ecdsaEnabled
    /\ ~history.config.mldsaEnabled

\* ---- C8
\* C8: with both algorithms enabled and a seed that can be resolved,
\* dualSign(data) returns a result with both branches non-null, the input as
\* its data, and the resolved indices (0 and 0 when nothing provides them).
C8_DualSignBothBranches ==
  \A t \in Callers :
    (/\ Finished(t)
     /\ tasks[t].op = "dualSign"
     /\ DataSupported(tasks[t].data)
     /\ history.config.ecdsaEnabled
     /\ history.config.mldsaEnabled
     /\ history.config.autoInitialize
     /\ SeedResolvable
     /\ ~env.strictHex
     /\ ~tasks[t].gone0
     /\ ~history.disposed)
    => /\ tasks[t].res.kind = "ok"
       /\ tasks[t].res.ecdsa # None
       /\ tasks[t].res.mldsa # None
       /\ tasks[t].res.data = tasks[t].data
       /\ tasks[t].res.accountIndex = ResolveIndex(history.config.accountIndex,
                                                   history.account.getAccountIndex,
                                                   history.account.accountIndex)
       /\ tasks[t].res.addressIndex = ResolveIndex(history.config.addressIndex,
                                                   history.account.getAddressIndex,
                                                   history.account.addressIndex)

\* ---- C9
\* C9: signWithECDSA fails with a disabled-algorithm error when ECDSA is
\* disabled, and signWithMLDSA when ML-DSA is disabled (on a coordinator that
\* can initialize: seed resolvable, auto-initializing or ready, not disposed).
C9_DisabledAlgorithmRejected ==
  \A t \in Callers :
    (/\ Finished(t)
     /\ tasks[t].op = tasks[t].route
     /\ SeedResolvable
     /\ history.config.autoInitialize \/ tasks[t].ready0
     /\ ~tasks[t].gone0
     /\ ~history.disposed)
    => /\ (tasks[t].op = "signWithECDSA" /\ ~history.config.ecdsaEnabled)
            => tasks[t].res.err = "AlgorithmDisabledError"
       /\ (tasks[t].op = "signWithMLDSA" /\ ~history.config.mldsaEnabled)
            => tasks[t].res.err = "AlgorithmDisabledError"

\* ---- C10
\* the signature type sign() selects, and the method that serves it
Selected(t) ==
  IF Falsy(tasks[t].type) THEN history.config.defaultSignatureType ELSE tasks[t].type
RouteOf(signatureType) ==
  CASE signatureType = "ecdsa" -> "signWithECDSA"
    [] signatureType = "mldsa" -> "signWithMLDSA"
    [] signatureType = "dual" -> "dualSign"
    [] OTHER -> "sign"

\* C10 as amended: sign(data, options) selects options.type when it is
\* truthy and the configured defaultSignatureType otherwise (also for an
\* options.type that is given but falsy, such as the empty string); it then
\* runs signWithECDSA, signWithMLDSA or dualSign for 'ecdsa', 'mldsa' or
\* 'dual' and returns what that returns, and fails with an invalid-type
\* error for every other truthy options.type.  After dispose() there is no
\* default left to select: sign() without a truthy type fails.
C10_SignDispatches ==
  \A t \in Callers :
    (tasks[t].op = "sign" /\ tasks[t].pc # "idle") =>
      IF tasks[t].gone0 /\ Falsy(tasks[t].type)
        THEN Finished(t) /\ tasks[t].res.err = "TypeError"
        ELSE /\ tasks[t].route = RouteOf(Selected(t))
             /\ Selected(t) \notin SignatureTypes
                  => Finished(t) /\ tasks[t].res.err = "InvalidSignatureTypeError"
             /\ (Finished(t) /\ tasks[t].res.kind = "ok") =>
                  /\ Selected(t) = "ecdsa" =>
                       /\ tasks[t].res.ecdsa # None
                       /\ Val(tasks[t].res.ecdsa).mode = "sign"
                       /\ tasks[t].res.data = ""
                  /\ Selected(t) = "dual" => tasks[t].res.data = tasks[t].data

\* sign() given 'dual' on a coordinator whose default is 'ecdsa' has
\* returned what dualSign returns
C10_Witness ==
  \E t \in Callers :
    /\ Finished(t)
    /\ tasks[t].op = "sign"
    /\ tasks[t].type = "dual"
    /\ history.config.defaultSignatureType = "ecdsa"
    /\ tasks[t].route = "dualSign"
    /\ tasks[t].res.kind = "ok"
    /\ tasks[t].res.ecdsa # None

\* C10 as stated: sign() fails with an invalid-type error for every value
\* of options.type other than 'ecdsa', 'mldsa' and 'dual'.
C10_EveryOtherTypeRejected ==
  \A t \in Callers :
    (/\ tasks[t].op = "sign"
     /\ tasks[t].pc # "idle"
     /\ tasks[t].type # "undefined"
     /\ tasks[t].type \notin SignatureTypes)
    => Finished(t) /\ tasks[t].res.err = "InvalidSignatureTypeError"

\* ---- C11
\* C11: when no seed can be resolved (no seed in the configuration, and an
\* account without a seed source or whose getSeed() yields nothing),
\* initialize() fails with an initialization error and isInitialized() is
\* false, whatever the enabled flags are.
C11_NoSeedNoInitialization ==
  ~SeedResolvable =>
    /\ ~this.initialized
    /\ \A t \in Callers :
         (Finished(t) /\ tasks[t].op = "initialize")
         => tasks[t].res.err = "InitializationError"

\* ---- C12
\* C12: two getAddresses() calls that returned return the same object
\* exactly when no clearCaches() and no dispose() was invoked between the two
\* returns; and so do two getPublicKeys() calls.
C12_CacheIdentity ==
  \A i \in DOMAIN history.log : \A j \in DOMAIN history.log :
    (i < j /\ history.log[i].op \in CachedOps /\ history.log[j].op = history.log[i].op)
    => ((history.log[i].obj = history.log[j].obj)
          <=> ~\E k \in DOMAIN history.log :
                  i < k /\ k < j /\ history.log[k].op = "clear")

\* getAddresses() has returned an object, clearCaches() was called, and
\* getAddresses() has returned another object
C12_Witness ==
  /\ Len(history.log) = 3
  /\ history.log[1].op = "getAddresses"
  /\ history.log[2].op = "clear"
  /\ history.log[3].op = "getAddresses"
  /\ history.log[1].obj # history.log[3].obj
  /\ ~history.disposed

\* ---- C13
\* the fields a disposed coordinator is left with
DisposedFields(fields) ==
  [fields EXCEPT !.keyDerivation = NULL, !.ecdsaSigner = NULL, !.mldsaSigner = NULL,
                 !.initialized = FALSE, !.account = None, !.config = None,
                 !.addressCache = {}, !.publicKeyCache = {}]

\* C13: in every state (before initialization, with an initialization
\* suspended, when ready, after a dispose()) dispose() runs to its end and
\* leaves the coordinator disposed; a dispose() called again at once, or on a
\* coordinator that is in the disposed state, changes nothing.
C13_DisposeFromAnyState ==
  LET D == Dispose(Pack(1))
  IN  /\ D.this = DisposedFields(this)
      /\ D.tasks = tasks
      /\ Dispose(D) = D
      /\ this = DisposedFields(this) => D = Pack(1)

\* dispose() has run while an initialization was suspended
C13_Witness ==
  /\ history.disposed
  /\ this = DisposedFields(this)
  /\ \E t \in Callers :
       tasks[t].pc \in {"I_seed", "I_acct", "I_addr", "I_key", "D_mn", "D_ret", "D_gen"}

\* ---- C14
\* C14: every step of an initialize() that was called on a ready
\* coordinator leaves the coordinator's fields (engine, signers, indices,
\* caches), the engines, the signers and the cached objects as they are, asks
\* the account nothing, and the call ends without an error.
C14_InitializeWhenReadyIsNoOp ==
  [][\A t \in Callers :
       (tasks'[t] # tasks[t] /\ tasks'[t].op = "initialize" /\ tasks'[t].ready0)
       => /\ this' = this
          /\ engines' = engines
          /\ ecdsaSigners' = ecdsaSigners
          /\ mldsaSigners' = mldsaSigners
          /\ zeroed' = zeroed
          /\ objs' = objs
          /\ tasks'[t].pc \in {"body", "done"}
          /\ tasks'[t].pc = "done" => tasks'[t].res.kind = "ok"]_vars

\* an initialize() called on a ready coordinator with a filled cache has
\* returned, and the coordinator is as it was
C14_Witness ==
  \E t \in Callers :
    /\ Finished(t)
    /\ tasks[t].op = "initialize"
    /\ tasks[t].ready0
    /\ tasks[t].res.kind = "ok"
    /\ this.initialized
    /\ this.keyDerivation = 1
    /\ this.addressCache # {}

C16_PlaceholderIsFlagged ==
  \A t \in Callers :
    (/\ Finished(t)
     /\ tasks[t].route = "deriveMLDSAKey"
     /\ tasks[t].res.kind = "ok"
     /\ ~env.pqAvailable)
    => LET key == Val(tasks[t].res.mldsa)
       IN  /\ key.placeholder = Some(TRUE)
           /\ MLDSASignerCtorOk(key)
           /\ ~NewMLDSASigner(key).hasRealImplementation
           /\ Val(SignWithPlaceholder(NewMLDSASigner(key), "msg").mldsa).placeholder

\* ---- C18
\* the fixed signature size of a security level, by the name the
\* configuration gives it
LevelSignatureSize(mldsaAlgorithm) ==
  CASE mldsaAlgorithm = "ML-DSA-44" -> ML_DSA_LEVELS.ML_DSA_44.signatureSize
    [] mldsaAlgorithm = "ML-DSA-65" -> ML_DSA_LEVELS.ML_DSA_65.signatureSize
    [] mldsaAlgorithm = "ML-DSA-87" -> ML_DSA_LEVELS.ML_DSA_87.signatureSize

\* C18: on a coordinator configured with one of the three security levels
\* (ML-DSA enabled, seed resolvable, not disposed), signWithMLDSA returns a
\* signature whose length is that level's signature size.
C18_SignatureSizeOfLevel ==
  \A t \in Callers :
    (/\ Finished(t)
     /\ tasks[t].op = "signWithMLDSA"
     /\ history.config.mldsaEnabled
     /\ SeedResolvable
     /\ ~tasks[t].gone0
     /\ ~history.disposed)
    => /\ tasks[t].res.kind = "ok"
       /\ tasks[t].res.mldsa # None
       /\ Val(tasks[t].res.mldsa).size = LevelSignatureSize(history.config.mldsaAlgorithm)

\* ---- C17
\* the real primitive, had it been asked, accepts a signature that it made
\* itself with this signer's key over this data
PrimitiveAccepts(signer, data, sig) ==
  /\ sig.alg = "ML-DSA"
  /\ ~sig.placeholder
  /\ Some(sig.key) = signer.privateKey
  /\ sig.msg = data

\* C17: MLDSASigner.verify of a signer that holds real key material answers
\* true only for a signature that the real primitive accepts; the length of
\* the signature alone decides only for a signer with placeholder material.
C17_SizeOnlyForPlaceholderOnly ==
  \A t \in Callers :
    (/\ Finished(t)
     /\ tasks[t].route = "MLDSASigner.verify"
     /\ mldsaSigners[1].hasRealImplementation
     /\ tasks[t].res.flag)
    => PrimitiveAccepts(mldsaSigners[1], tasks[t].data,
                        SignatureBytes(Pack(t), mldsaSigners[1]))

\* ---- C19
\* C19: for the classical signer and supported data, verify(data, sign(data))
\* is true (default options, the signer's own public key, keys not disposed).
C19_ECDSARoundTrip ==
  \A t \in Callers :
    (/\ Finished(t)
     /\ tasks[t].route = "ECDSASigner.roundTrip"
     /\ DataSupported(tasks[t].data)
     /\ ecdsaSigners[1].publicKey # None)
    => tasks[t].res.kind = "ok" /\ tasks[t].res.flag

\* ---- C20
\* C20: an MLDSASigner can be built from the key material deriveMLDSAKey
\* returns, and for supported data its verify(data, sign(data)) is true, with
\* real and with placeholder key material.
C20_MLDSARoundTrip ==
  \A t \in Callers :
    Finished(t) =>
      /\ (tasks[t].route = "new MLDSASigner" /\ tasks[t].type = "derived")
         => tasks[t].res.kind = "ok"
      /\ (tasks[t].route = "MLDSASigner.roundTrip" /\ DataSupported(tasks[t].data))
         => tasks[t].res.kind = "ok" /\ tasks[t].res.flag

\* ---- C21
\* arguments of verify() that are malformed: data that cannot be turned into
\* bytes, a signature that is no signature, a public key that is no key
MalformedArgs(task) ==
  \/ ~DataSupported(task.data)
  \/ task.type \in {"junk", "short", "badkey"}

SecretOf(res) == IF res.ecdsa # None THEN Val(Val(res.ecdsa).privateKey)
                 ELSE Val(Val(res.mldsa).seed)

\* C22: what an engine derives is derived from the seed it was built from,
\* whether or not another engine built from the same seed has been disposed.
C22_DisposeLeavesOthersAlone ==
  \A t \in Callers :
    (Finished(t) /\ tasks[t].res.kind = "ok")
    => SecretOf(tasks[t].res).master = history.config.seed

\* ---- C24
\* C24: two derive calls for the same algorithm and the same indices, on one
\* engine or on two engines built from the same seed, return the same keys
\* (a classical key pair, a post-quantum sub-seed).
C24_DerivationDeterministic ==
  \A t, u \in Callers :
    (/\ Finished(t) /\ Finished(u)
     /\ tasks[t].res.kind = "ok" /\ tasks[u].res.kind = "ok"
     /\ tasks[t].route = tasks[u].route
     /\ \A f \in {"ecdsa", "mldsa"} :
          /\ (tasks[t].res[f] = None) = (tasks[u].res[f] = None)
          /\ tasks[t].res[f] # None =>
               /\ Val(tasks[t].res[f]).accountIndex = Val(tasks[u].res[f]).accountIndex
               /\ Val(tasks[t].res[f]).addressIndex = Val(tasks[u].res[f]).addressIndex)
    => /\ SecretOf(tasks[t].res) = SecretOf(tasks[u].res)
       /\ tasks[t].res.ecdsa # None =>
            Val(tasks[t].res.ecdsa).publicKey = Val(tasks[u].res.ecdsa).publicKey

\* ---- C23
KeyOf(res) == IF res.ecdsa # None THEN Val(res.ecdsa) ELSE Val(res.mldsa)

\* C23: key material derived from one seed for two different account indices
\* gives two different addresses, for the classical keys and for the
\* post-quantum keys, real or placeholder (the address is computed from the
\* public key, as the signers' getAddress() do).
C23_AccountsHaveOwnAddresses ==
  \A t, u \in Callers :
    (/\ Finished(t) /\ Finished(u)
     /\ tasks[t].res.kind = "ok" /\ tasks[u].res.kind = "ok"
     /\ tasks[t].route = tasks[u].route
     /\ KeyOf(tasks[t].res).accountIndex # KeyOf(tasks[u].res).accountIndex)
    => Address("address", Val(KeyOf(tasks[t].res).publicKey))
         # Address("address", Val(KeyOf(tasks[u].res).publicKey))

\* ---- C25
\* the bytes of a derived secret: those of the node of the seed's key tree at
\* the derivation path
SecretBytes(res) == <<SecretOf(res).master, SecretOf(res).path>>
Triple(task) ==
  <<task.route, KeyOf(task.res).accountIndex, KeyOf(task.res).addressIndex>>

\* C25: on one engine, two derivations that differ in the algorithm, in the
\* account index or in the address index give different secrets (classical
\* private key, post-quantum sub-seed).
C25_SecretsSeparated ==
  \A t, u \in Callers :
    (/\ Finished(t) /\ Finished(u)
     /\ tasks[t].res.kind = "ok" /\ tasks[u].res.kind = "ok"
     /\ Triple(tasks[t]) # Triple(tasks[u]))
    => SecretBytes(tasks[t].res) # SecretBytes(tasks[u].res)

\* a classical key and a post-quantum key were derived for the same indices
C25_Witness ==
  \E t, u \in Callers :
    /\ Finished(t) /\ Finished(u)
    /\ tasks[t].res.kind = "ok" /\ tasks[u].res.kind = "ok"
    /\ tasks[t].route = "deriveECDSAKey" /\ tasks[u].route = "deriveMLDSAKey"
    /\ KeyOf(tasks[t].res).accountIndex = KeyOf(tasks[u].res).accountIndex
    /\ KeyOf(tasks[t].res).addressIndex = KeyOf(tasks[u].res).addressIndex

\* ---- C26
\* m/44'/coin'/a'/0/i, absent indices counting as 0
PathOf(coin, a, i) ==
  <<44, coin, IF a = None THEN 0 ELSE Val(a), 0, IF i = None THEN 0 ELSE Val(i)>>

\* C26: getDerivationPaths(a, i) gives m/44'/60'/a'/0/i and m/44'/9000'/a'/0/i
\* (indices default to 0), which differ in the coin-type segment only, and
\* the path in derived key material is the one getDerivationPaths gives for
\* the indices of that material.
C26_DerivationPaths ==
  /\ \A a, i \in IndexArgs :
       /\ GetDerivationPaths(a, i).ecdsa = PathOf(60, a, i)
       /\ GetDerivationPaths(a, i).mldsa = PathOf(9000, a, i)
       /\ \A k \in 1 .. 5 :
            (GetDerivationPaths(a, i).ecdsa[k] # GetDerivationPaths(a, i).mldsa[k])
              <=> k = 2
  /\ \A t \in Callers :
       (Finished(t) /\ tasks[t].res.kind = "ok")
       => LET key == KeyOf(tasks[t].res)
              paths == GetDerivationPaths(Some(key.accountIndex), Some(key.addressIndex))
          IN  key.path = IF tasks[t].route = "deriveECDSAKey" THEN paths.ecdsa
                         ELSE paths.mldsa

\* a classical key was derived for account 1 with the address index left out
C26_Witness ==
  \E t \in Callers :
    /\ Finished(t)
    /\ tasks[t].res.kind = "ok"
    /\ tasks[t].route = "deriveECDSAKey"
    /\ KeyOf(tasks[t].res).path = <<44, 60, 1, 0, 0>>

\* ---- C28
\* C28: no call is past the check of _initialize() and about to derive the
\* master key of an engine that has its master key already: the master key
\* of an engine is derived once.
C28_MasterKeyDerivedOnce ==
  \A t \in TaskIds :
    tasks[t].pc = "D_mn" => ~engines[tasks[t].eng].initialized

\* ---- C29
\* C29: an engine that was disposed of holds no seed, no master seed and no
\* master key, and is not initialized, whatever resumes afterwards.
C29_DisposedEngineStaysEmpty ==
  engines[1].seed = NoSeed
  => /\ engines[1].masterKey = "none"
     /\ engines[1].masterSeed = "none"
     /\ ~engines[1].initialized

\* ---- C27
\* the index the keys of a ready coordinator were derived for
UsedAccountIndex == ecdsaSigners[this.ecdsaSigner].accountIndex
UsedAddressIndex == ecdsaSigners[this.ecdsaSigner].addressIndex
Derived == this.initialized /\ this.ecdsaSigner # NULL

\* C27: the index used for derivation is the configuration override when set
\* (0 included), else what the account's method returns when it has one, else
\* the account's own accountIndex / addressIndex property when it has one,
\* else 0.
C27_IndexResolution ==
  Derived =>
    LET c == history.config
        a == history.account
    IN  /\ UsedAccountIndex =
             (IF c.accountIndex # None THEN Val(c.accountIndex)
              ELSE IF a.getAccountIndex # None THEN Val(a.getAccountIndex)
              ELSE IF a.accountIndex # None THEN Val(a.accountIndex) ELSE 0)
        /\ UsedAddressIndex =
             (IF c.addressIndex # None THEN Val(c.addressIndex)
              ELSE IF a.getAddressIndex # None THEN Val(a.getAddressIndex)
              ELSE IF a.addressIndex # None THEN Val(a.addressIndex) ELSE 0)
        /\ this.accountIndex = Some(UsedAccountIndex)
        /\ this.addressIndex = Some(UsedAddressIndex)

\* keys were derived for account 0, the override, on an account whose method
\* and property name other indices
C27_Witness ==
  /\ Derived
  /\ history.config.accountIndex = Some(0)
  /\ history.account.getAccountIndex # None
  /\ history.account.accountIndex # None
  /\ UsedAccountIndex = 0

\* C27 as stated: override, else the account's method, else 0
C27_OverrideMethodDefault ==
  Derived =>
    LET c == history.config
        a == history.account
    IN  /\ UsedAccountIndex =
             (IF c.accountIndex # None THEN Val(c.accountIndex)
              ELSE IF a.getAccountIndex # None THEN Val(a.getAccountIndex) ELSE 0)
        /\ UsedAddressIndex =
             (IF c.addressIndex # None THEN Val(c.addressIndex)
              ELSE IF a.getAddressIndex # None THEN Val(a.getAddressIndex) ELSE 0)

\* ---- C30
\* a protocol of that type was registered under that label: on the WDK for
\* the account's blockchain, or on the account
Registered(a, type, label) ==
  \/ <<type, objs[a].blockchain, label>> \in this.protocols
  \/ <<type, label>> \in objs[a].registered

\* C30: get<Type>Protocol(label) of an account returns a protocol if a
\* protocol of that type was registered under that label on the WDK for the
\* account's blockchain or on the account, and throws if none was.
C30_ProtocolIffRegistered ==
  (tasks[2].pc = "done" /\ tasks[2].op = "getProtocol")
  => IF Registered(Val(tasks[2].val), tasks[2].type, tasks[2].data)
       THEN tasks[2].res.kind = "ok" /\ tasks[2].res.data = "protocol"
       ELSE tasks[2].res.kind = "err"

\* ---- C31
\* C31: after wdk.registerProtocol(blockchain, label, DualSignatureProtocol,
\* config), an account obtained from getAccount for that blockchain gives
\* access to a DualSignatureProtocol under that label.
C31_DualProtocolOffered ==
  (/\ tasks[2].pc = "done"
   /\ tasks[2].op = "getProtocol"
   /\ tasks[2].type = "dual"
   /\ <<"dual", objs[Val(tasks[2].val)].blockchain, tasks[2].data>>
        \in objs[Val(tasks[2].val)].offered)
  => tasks[2].res.kind = "ok" /\ tasks[2].res.data = "protocol"

\* ---- C32
\* the middlewares that getAccount has called so far, in the order of the calls
Invoked(t) ==
  [j \in 1..((Len(tasks[t].rest) + 1) \div 2) |-> tasks[t].rest[2 * j - 1][2]]

\* C32: while getAccount / getAccountByPath runs for a blockchain, the
\* middlewares it calls are those registered for that blockchain, each once
\* and in registration order, each called only when the one before has
\* returned; when the account is returned, every middleware that was
\* registered for the blockchain when the call was made has run, and none
\* of another blockchain.
C32_MiddlewaresInOrder ==
  (tasks[1].op = "getAccount" /\ tasks[1].data \in Blockchains) =>
    LET log == tasks[1].rest
        list == this.middlewares[tasks[1].data]
    IN  /\ \A j \in 1..Len(log) :
              /\ log[j][1] = (IF j % 2 = 1 THEN "called" ELSE "returned")
              /\ log[j][2] = list[(j + 1) \div 2]
        /\ Len(Invoked(1)) <= Len(list)
        /\ (tasks[1].pc = "done" /\ tasks[1].res.kind = "ok")
             => /\ Len(log) % 2 = 0
                /\ Len(Invoked(1)) >= Val(tasks[1].a)

\* an account was returned after two middlewares of its blockchain ran, a
\* middleware being registered for the other blockchain
C32_Witness ==
  /\ tasks[1].pc = "done"
  /\ tasks[1].res.kind = "ok"
  /\ Len(Invoked(1)) = 2
  /\ \E b \in Blockchains : b # tasks[1].data /\ this.middlewares[b] # <<>>

\* ---- C33
\* C33: getAccount, getAccountByPath and getFeeRates fail (a failure that a
\* middleware raised aside) exactly when no wallet was registered under the
\* name when they were called; after dispose() no wallet is registered, and
\* no wallet is disposed twice.
C33_FailsIffNoWallet ==
  /\ \A t \in {1, 3} :
       (tasks[t].pc = "done" /\ tasks[t].op \in {"getAccount", "getFeeRates"}
          /\ tasks[t].res.err # "MiddlewareError")
       => (tasks[t].res.kind = "err" <=> ~tasks[t].ready0)
  /\ (tasks[2].pc = "done" /\ tasks[2].op = "dispose") => this.wallets = {}
  /\ \A b \in WalletNames :
       this.disposals[b] + (IF b \in this.wallets THEN 1 ELSE 0) <= this.created[b]

\* ---- C34
\* C34: a signature that ECDSASigner.sign returns for options with
\* addPrefix = true is made over the hash of the prefixed message, whatever
\* hashMessage is.
C34_PrefixImpliesHash ==
  \A t \in Callers :
    (/\ Finished(t)
     /\ tasks[t].route = "ECDSASigner.sign"
     /\ AddPrefix(tasks[t].type)
     /\ tasks[t].res.kind = "ok")
    => Val(tasks[t].res.ecdsa).mode = "signMessage"

\* ---- C37
\* C37: every signature that sign() of a signer returns was made with key
\* material the signer held: none is made once dispose() has zeroed and
\* dropped it, also when sign() was suspended while dispose() ran.
C37_NoSignatureAfterDispose ==
  \A t \in Callers :
    (Finished(t) /\ tasks[t].op = "sign" /\ tasks[t].res.kind = "ok")
    => /\ tasks[t].res.ecdsa # None => Val(tasks[t].res.ecdsa).key # None
       /\ tasks[t].res.mldsa # None => Val(tasks[t].res.mldsa).key # None

\* ---- C35
\* C35: when a call has ended with the initialization error and the
\* coordinator is not initialized, the coordinator holds no engine and no
\* signer.
C35_FailedInitializeKeepsNothing ==
  \A t \in Callers :
    (Finished(t) /\ tasks[t].res.err = "InitializationError" /\ ~this.initialized)
    => /\ this.keyDerivation = NULL
       /\ this.ecdsaSigner = NULL
       /\ this.mldsaSigner = NULL

Misuse(t) ==
  \/ tasks[t].op = "signWithECDSA" /\ ~history.config.ecdsaEnabled
  \/ tasks[t].op = "signWithMLDSA" /\ ~history.config.mldsaEnabled
  \/ tasks[t].op = "sign" /\ Unrecognised(tasks[t].type)

\* C38: when the first call made on a coordinator misuses the configuration,
\* it is rejected and the coordinator is as the constructor left it: not
\* initialized, no engine built, no index resolved.
C38_MisuseChangesNothing ==
  \A t \in Callers :
    (/\ Finished(t)
     /\ Misuse(t)
     /\ started = 1
     /\ ~tasks[t].gone0
     /\ ~history.disposed)
    => /\ tasks[t].res.kind = "err"
       /\ ~this.initialized
       /\ engines = <<>>
       /\ this.keyDerivation = NULL
       /\ this.accountIndex = None
====
